---- MODULE Spec2Model ----
(***************************************************************************)
(* Book Hub: the REST servers of the repository, and its browser client,   *)
(* as one state machine.                                                   *)
(*                                                                         *)
(* A run of the model is a run of ONE server variant (variable `variant`)  *)
(* against its MongoDB collections `users` and `books`.  Node runs the     *)
(* handlers on a single thread: a handler runs without interruption up to  *)
(* its next `await`, so every action below is one such stretch of code,    *)
(* merged with the effect of the storage call it awaited.  Requests that   *)
(* are suspended at an `await` live in `proc`.                             *)
(*                                                                         *)
(* Each stretch is an operator from the request (or the suspended request) *)
(* and the current state to its outcome: the response it sends, if any,    *)
(* and the documents it writes.  The action of the stretch applies the     *)
(* outcome; a property of "every response" is a property of the outcome    *)
(* operator in every reachable state, for every request.                   *)
(***************************************************************************)
EXTENDS Integers, Sequences, FiniteSets, TLC

VARIABLES
    variant,    \* which server file is running
    process,    \* the Node process: its environment and whether it listens
    users,      \* the User collection
    books,      \* the Book collection
    now,        \* Date.now(), milliseconds since the server started
    nextId,     \* source of fresh ObjectIds
    issued,     \* every token the server has signed (what clients may hold)
    proc,       \* the requests suspended at an await, by slot
    signedUp,   \* history: emails for which a signup has answered 201
    deletedOk,  \* history: listing ids for which a DELETE has answered 200
    acks,       \* history: the append-message requests answered with success,
                \* for the listings that have not been deleted
    store,      \* the browser client: its store (user, listings cache, view)
    dom,        \* the browser client: the page (counters, grids, filter)
    calls       \* the browser client: its apiFetch calls in flight, by slot

vars == <<variant, process, users, books, now, nextId, issued, proc, signedUp, deletedOk, acks,
          store, dom, calls>>

-----------------------------------------------------------------------------
(* Bounds of the model.                                                    *)

\* request slots: how many requests can be suspended at the same time
MaxReq == 2
\* ObjectIds stored in one run (users and listings together); an ObjectId
\* made for a document whose insert fails is never seen again and is not counted
MaxIds == 4
\* listings created in one run
MaxBooks == 2
\* messages appended in one run
MaxMsgs == 2
\* milliseconds that pass in one run
MaxMs == 1
\* apiFetch calls of the browser client in flight at the same time
MaxCalls == 1

Slots == 1..MaxReq

-----------------------------------------------------------------------------
(* JavaScript values of a request body: undefined, a string (a sequence of *)
(* pieces, so that endsWith and split are computed), a number.             *)

UNDEF == [t |-> "undefined"]
Str(s) == [t |-> "string", v |-> s]
Num(n) == [t |-> "number", v |-> n]

\* !x is FALSE: the value is present and is not "" / 0
Truthy(x) ==
    CASE x.t = "undefined" -> FALSE
      [] x.t = "string" -> x.v # <<>>
      [] x.t = "number" -> x.v # 0

\* String.prototype.endsWith
EndsWith(s, suffix) ==
    /\ Len(s) >= Len(suffix)
    /\ SubSeq(s, Len(s) - Len(suffix) + 1, Len(s)) = suffix

\* String.prototype.split(' ') on a string given as a sequence of pieces,
\* the blanks being pieces of their own: the sequence of its blank-free parts
SP == [w |-> " "]
RECURSIVE Split(_)
Split(s) ==
    IF \A i \in 1..Len(s) : s[i] # SP
    THEN <<s>>
    ELSE LET k == CHOOSE i \in 1..Len(s) : s[i] = SP /\ \A j \in 1..(i - 1) : s[j] # SP
         IN  <<SubSeq(s, 1, k - 1)>> \o Split(SubSeq(s, k + 1, Len(s)))

ObjectId(n) == [oid |-> n]
\* ObjectId.prototype.toString / the JSON form of an ObjectId: its hex string
toString(o) == <<"hex", o.oid>>
\* mongoose's cast of a hex string to the ObjectId of a schema path
CastObjectId(s) == [oid |-> s[2]]

-----------------------------------------------------------------------------
(* Configuration of the servers.                                           *)

JWT_SECRET == "your_default_secret_key_if_not_set"
ALLOWED_DOMAIN == <<"@gmail.com">>
\* expiresIn: '7d', in seconds
ExpiresIn == 604800

\* the servers are observed from a week after the first tokens were signed
StartTime == ExpiresIn * 1000

\* the response helper: status and the envelope {success, message, data}
sendResponse(data, message, success, status) ==
    [status |-> status, body |-> [success |-> success, message |-> message, data |-> data]]

Idle == [pc |-> "idle"]
\* a new request is taken up by the first free slot
FreeSlot(p) == proc[p] = Idle /\ \A q \in 1..(p - 1) : proc[q] # Idle

-----------------------------------------------------------------------------
(* bcrypt and jsonwebtoken.                                                *)

\* the salts bcrypt may draw
Salts == {"salt1"}
\* bcrypt.hash(password, 10): a hash carries its salt and cost
bcryptHash(password, salt) == [alg |-> "bcrypt", cost |-> 10, salt |-> salt, of |-> password]
\* bcrypt.compare(password, hash)
bcryptCompare(password, hash) == bcryptHash(password, hash.salt) = hash

\* jwt.sign(payload, secret, {expiresIn}): iat and exp are in seconds
jwtSign(payload, secret, t) ==
    LET p == [userId |-> payload.userId, name |-> payload.name, email |-> payload.email,
              iat |-> t \div 1000, exp |-> (t \div 1000) + ExpiresIn]
    IN  <<[jwt |-> [payload |-> p, sig |-> [key |-> secret, over |-> p]]]>>

\* jwt.verify(token, secret): the payload, or an error
\* (a token string is a sequence of pieces; a well-formed one is one jwt piece)
jwtVerify(token, secret, t) ==
    IF Len(token) # 1 \/ "jwt" \notin DOMAIN token[1]
    THEN [err |-> "jwt malformed"]
    ELSE IF token[1].jwt.sig # [key |-> secret, over |-> token[1].jwt.payload]
    THEN [err |-> "invalid signature"]
    ELSE IF (t \div 1000) >= token[1].jwt.payload.exp
    THEN [err |-> "jwt expired"]
    ELSE [user |-> token[1].jwt.payload]

\* UserSchema.methods.createToken
createToken(user, t) ==
    jwtSign([userId |-> toString(user._id), name |-> user.name, email |-> user.email],
            JWT_SECRET, t)

-----------------------------------------------------------------------------
(* What clients send.                                                      *)

E1 == <<"ann", "@gmail.com">>
E2 == <<"bob", "@gmail.com">>
EY == <<"eve", "@yahoo.com">>

SignupBodies ==
    { [email |-> Str(E1), password |-> Str(<<"pw1">>), name |-> Str(<<"Ann">>)],
      [email |-> Str(E1), password |-> Str(<<"pw2">>), name |-> Str(<<"Bob">>)],
      [email |-> Str(E2), password |-> Str(<<"pw1">>), name |-> Str(<<"Bob">>)],
      [email |-> Str(EY), password |-> Str(<<"pw1">>), name |-> Str(<<"Eve">>)],
      [email |-> UNDEF,   password |-> Str(<<"pw1">>), name |-> Str(<<"Ann">>)],
      [email |-> Str(E1), password |-> Str(<<>>),      name |-> Str(<<"Ann">>)],
      [email |-> Str(E1), password |-> Str(<<"pw1">>), name |-> UNDEF],
      [email |-> Str(EY), password |-> UNDEF,          name |-> Str(<<"Eve">>)] }

\* a signup whose email is a JSON number
NonStringSignupBodies ==
    { [email |-> Num(42), password |-> Str(<<"pw1">>), name |-> Str(<<"Ann">>)] }

LoginBodies ==
    { [email |-> Str(E1), password |-> Str(<<"pw1">>)],
      [email |-> Str(E1), password |-> Str(<<"pw2">>)],
      [email |-> Str(E2), password |-> Str(<<"pw1">>)],
      [email |-> Str(EY), password |-> Str(<<"pw1">>)],
      [email |-> UNDEF,   password |-> Str(<<"pw1">>)],
      [email |-> Str(E1), password |-> UNDEF] }

\* listing bodies: a complete one (an exchange offer with an image, which
\* also carries owner and contact fields), and bodies with one field missing
ForgedOwner == [userId |-> toString(ObjectId(1)), name |-> <<"Mallory">>, email |-> <<"mal", "@gmail.com">>]
FullBody ==
    [title |-> Str(<<"SICP">>), author |-> Str(<<"Abelson">>), description |-> Str(<<"as new">>),
     price |-> Num(0), type |-> Str(<<"Exchange">>), condition |-> UNDEF,
     image |-> Str(<<"data:image/png;base64,", "iVBORw0KGgo=">>),
     owner |-> ForgedOwner, contact |-> Str(<<"mal", "@gmail.com">>)]

BookBodies ==
    { FullBody,
      [FullBody EXCEPT !.title = UNDEF],
      [FullBody EXCEPT !.author = UNDEF],
      [FullBody EXCEPT !.description = Str(<<>>)],
      [FullBody EXCEPT !.type = UNDEF],
      [FullBody EXCEPT !.price = UNDEF] }

MessageTexts == {UNDEF, Str(<<>>), Str(<<"still available?">>)}
\* message bodies sent to part_000: they name a sender of their own
P0_MessageBodies == {[by |-> Str(<<"Mallory">>), text |-> text] : text \in MessageTexts}
P0_NoMessageBody == [by |-> UNDEF, text |-> UNDEF]

\* the :id of a route: the hex string of an ObjectId (of a listing, stored or
\* deleted; ObjectId(0) is the id of no document), or a string that is no id
NoSuchId == toString(ObjectId(0))
IdsSent ==
    {toString(ObjectId(n)) : n \in {0} \cup ((Cardinality(users) + 1)..(nextId - 1))}
    \cup {<<"not-an-id">>}

\* tokens a client can make from one it holds: the token itself, and the token
\* with its expiry pushed back (the signature no longer covers the payload)
Bearer(tokenString) == Str(<<[w |-> "Bearer"], SP>> \o tokenString)
Tampered(tok) ==
    <<[jwt |-> [payload |-> [tok[1].jwt.payload EXCEPT !.exp = @ + ExpiresIn],
                sig |-> tok[1].jwt.sig]]>>

AuthHeaders ==
    {UNDEF, Str(<<[w |-> "Bearer"]>>), Bearer(<<[w |-> "garbage"]>>)}
    \cup {Bearer(tok) : tok \in issued}
    \cup {Bearer(Tampered(tok)) : tok \in issued}

-----------------------------------------------------------------------------
(* The storage layer.                                                      *)

\* Book.findById(id): the matching documents; a string that is no ObjectId
\* is a CastError, which callers test with IsObjectId first
IsObjectId(s) == Len(s) = 2 /\ s[1] = "hex"
FindBook(id) == {b \in books : b._id = CastObjectId(id)}

\* the listings in an order that find().sort({createdAt: -1}) may return:
\* MongoDB leaves the order of documents with equal keys open
RECURSIVE SortedOrders(_)
SortedOrders(S) ==
    IF S = {} THEN {<<>>}
    ELSE UNION { { <<b>> \o rest : rest \in SortedOrders(S \ {b}) } :
                 b \in {x \in S : \A y \in S : x.createdAt >= y.createdAt} }

\* a projection that keeps every field
WithEveryField(doc) == doc

\* select('-msgs')
WithoutMsgs(doc) == [f \in (DOMAIN doc) \ {"msgs"} |-> doc[f]]

\* listings created so far (ObjectIds go to stored users and listings only)
Created == nextId - 1 - Cardinality(users)

\* messages stored, and append-message requests suspended before their save
Msgs(doc) == IF "msgs" \in DOMAIN doc THEN doc.msgs ELSE <<>>
RECURSIVE StoredMsgs(_)
StoredMsgs(S) ==
    IF S = {} THEN 0
    ELSE LET b == CHOOSE x \in S : TRUE IN Len(Msgs(b)) + StoredMsgs(S \ {b})
PendingMsgs == Cardinality({p \in Slots : proc[p].pc = "msg_save"})

\* User.findOne({ email }): the matching documents (at most one is returned)
FindUser(email) == {u \in users : u.email = email}

\* a collection without the unique index: every insert succeeds
UserInsertAlways(doc) == TRUE

\* the unique index of UserSchema.email: an insert of a second document
\* with the same email fails with a duplicate-key error
UserInsertOk(doc) == \A u \in users : u.email # doc.email

\* the servers with a credential service, and the servers with listings
AuthVariants == {"part_000", "part_002"}
Variants == {"part_000", "part_002", "part_001", "part_003", "part_004", "book_app"}

\* the empty database: the server has just been started for the first time
\* the browser client before its page is opened: localStorage holds no
\* user and no listings, the page shows nothing and its script has not run
\* (loaded), no call is in flight
EmptyStore == [user |-> UNDEF, listings |-> <<>>, currentView |-> "home"]
EmptyPage ==
    [statTotalBooks |-> 0, statMyListings |-> 0, myListingsCount |-> 0,
     listingsGrid |-> {}, myListingsGrid |-> {}, typeFilter |-> Str(<<>>),
     loaded |-> FALSE]
Calls == 1..MaxCalls
NoCall == [pc |-> "none"]

\* the environments a server is started in: the connection string of the
\* database is set, or it is absent (MONGO_URI for the authenticated servers,
\* MONGODB_URI for the others)
SetUri == Str(<<"mongodb+srv://cluster0/bookhub">>)
Envs == { [MONGO_URI |-> u, MONGODB_URI |-> u] : u \in {UNDEF, SetUri} }

\* a || b of JavaScript
OrElse(a, b) == IF Truthy(a) THEN a ELSE b

\* the process after process.exit(1), and after app.listen
Exited(env) == [env |-> env, listening |-> FALSE, exitCode |-> Num(1)]
Listening(env) == [env |-> env, listening |-> TRUE, exitCode |-> UNDEF]

\* part_000, top level: the connection string falls back to the local
\* database before it is tested
P0_Startup(env) ==
    LET MONGO_URI == OrElse(env.MONGO_URI, Str(<<"mongodb://127.0.0.1:27017/bookhub">>))
    IN  IF ~Truthy(MONGO_URI) THEN Exited(env) ELSE Listening(env)

\* part_002, top level: no fallback
P2_Startup(env) ==
    LET MONGO_URI == env.MONGO_URI
    IN  IF ~Truthy(MONGO_URI) THEN Exited(env) ELSE Listening(env)

\* part_001, top level: connects with whatever MONGODB_URI holds, logs a
\* failure of the connection and listens
P1_Startup(env) == Listening(env)

\* part_003, part_004 and Book app, top level: MONGODB_URI or a fallback,
\* a failure of the connection is logged, and the server listens
P3_Startup(env) == Listening(env)
P4_Startup(env) == Listening(env)
BA_Startup(env) == Listening(env)

Startup(v, env) ==
    CASE v = "part_000" -> P0_Startup(env)
      [] v = "part_002" -> P2_Startup(env)
      [] v = "part_001" -> P1_Startup(env)
      [] v = "part_003" -> P3_Startup(env)
      [] v = "part_004" -> P4_Startup(env)
      [] v = "book_app" -> BA_Startup(env)

\* the environments of the runs: part_001 has no fallback and does not exit,
\* so it is run with its connection string set (without one its handlers
\* have no database to talk to)
EnvsOf(v) == IF v = "part_001" THEN {e \in Envs : Truthy(e.MONGODB_URI)} ELSE Envs

InitAuth ==
    /\ variant \in AuthVariants
    /\ store = EmptyStore /\ dom = EmptyPage /\ calls = [c \in Calls |-> NoCall]
    /\ \E env \in EnvsOf(variant) : process = Startup(variant, env)
    /\ users = {}
    /\ books = {}
    /\ now = StartTime
    /\ nextId = 1
    /\ issued = {}
    /\ proc = [p \in Slots |-> Idle]
    /\ signedUp = {}
    /\ deletedOk = {}
    /\ acks = <<>>

\* two accounts, as the signups of Ann and Bob leave them
Registered ==
    { [_id |-> ObjectId(1), email |-> E1, password |-> bcryptHash(<<"pw1">>, "salt1"),
       name |-> <<"Ann">>],
      [_id |-> ObjectId(2), email |-> E2, password |-> bcryptHash(<<"pw1">>, "salt1"),
       name |-> <<"Bob">>] }

Ann == CHOOSE u \in Registered : u.email = E1
Bob == CHOOSE u \in Registered : u.email = E2

\* the servers with no listing yet; the authenticated server has two accounts,
\* Ann and Bob have just logged in, and Ann still holds the token of her
\* signup a week ago
Init ==
    /\ variant \in Variants
    /\ store = EmptyStore /\ dom = EmptyPage /\ calls = [c \in Calls |-> NoCall]
    /\ \E env \in EnvsOf(variant) : process = Startup(variant, env)
    /\ users = IF variant = "part_000" THEN Registered ELSE {}
    /\ books = {}
    /\ now = StartTime
    /\ nextId = Cardinality(users) + 1
    /\ issued = IF variant = "part_000"
                THEN {createToken(Ann, 0), createToken(Ann, StartTime), createToken(Bob, StartTime)}
                ELSE {}
    /\ proc = [p \in Slots |-> Idle]
    /\ signedUp = {u.email : u \in users}
    /\ deletedOk = {}
    /\ acks = <<>>

\* a millisecond passes
Tick ==
    /\ now < StartTime + MaxMs
    /\ now' = now + 1
    /\ UNCHANGED <<variant, process, store, dom, calls, users, books, nextId, issued, proc, signedUp, deletedOk, acks>>

\* the history of appends, when a listing is deleted
AcksWithout(oid) ==
    LET Keep(a) == a.id # oid IN SelectSeq(acks, Keep)

\* the record of an answered append: the listing, the message of the response
\* and how many messages the request had read in the listing
Ack(oid, message, read) == [id |-> oid, msg |-> message, read |-> read]

-----------------------------------------------------------------------------
(* src/unnamed/part_000: the authenticated server.                         *)

\* a signup that checks the domain before the missing fields
P0_SignupOutDomainFirst(b) ==
    IF b.email.t = "string" /\ ~EndsWith(b.email.v, ALLOWED_DOMAIN)
    THEN [resp |-> sendResponse(UNDEF, "Only emails ending with @gmail.com are allowed.", FALSE, 400)]
    ELSE IF ~Truthy(b.email) \/ ~Truthy(b.password) \/ ~Truthy(b.name)
    THEN [resp |-> sendResponse(UNDEF, "Please provide name, email, and password.", FALSE, 400)]
    ELSE IF b.email.t # "string"
    THEN [throws |-> "TypeError: email.endsWith is not a function"]
    ELSE IF FindUser(b.email.v) # {}
    THEN [resp |-> sendResponse(UNDEF, "Account already exists. Please log in.", FALSE, 409)]
    ELSE [await |-> [pc |-> "signup_save", req |-> b]]

\* a signup that does not look the email up
P0_SignupOutNoLookup(b) ==
    IF ~Truthy(b.email) \/ ~Truthy(b.password) \/ ~Truthy(b.name)
    THEN [resp |-> sendResponse(UNDEF, "Please provide name, email, and password.", FALSE, 400)]
    ELSE IF b.email.t # "string"
    THEN [throws |-> "TypeError: email.endsWith is not a function"]
    ELSE IF ~EndsWith(b.email.v, ALLOWED_DOMAIN)
    THEN [resp |-> sendResponse(UNDEF, "Only emails ending with @gmail.com are allowed.", FALSE, 400)]
    ELSE [await |-> [pc |-> "signup_save", req |-> b]]

\* POST /api/auth/signup, up to the await of bcrypt.hash: the response, the
\* suspension, or the exception that leaves the async handler before its try
\* block (the request then gets no response from the route)
P0_SignupOut(b) ==
    IF ~Truthy(b.email) \/ ~Truthy(b.password) \/ ~Truthy(b.name)
    THEN [resp |-> sendResponse(UNDEF, "Please provide name, email, and password.", FALSE, 400)]
    ELSE IF b.email.t # "string"
    THEN [throws |-> "TypeError: email.endsWith is not a function"]
    ELSE IF ~EndsWith(b.email.v, ALLOWED_DOMAIN)
    THEN [resp |-> sendResponse(UNDEF, "Only emails ending with @gmail.com are allowed.", FALSE, 400)]
    ELSE IF FindUser(b.email.v) # {}
    THEN [resp |-> sendResponse(UNDEF, "Account already exists. Please log in.", FALSE, 409)]
    ELSE [await |-> [pc |-> "signup_save", req |-> b]]

P0_Signup(p, b) ==
    /\ variant = "part_000"
    /\ process.listening
    /\ FreeSlot(p)
    /\ LET out == P0_SignupOut(b)
       IN  proc' = IF "await" \in DOMAIN out THEN [proc EXCEPT ![p] = out.await] ELSE proc
    /\ UNCHANGED <<variant, process, store, dom, calls, users, books, now, nextId, issued, signedUp, deletedOk, acks>>

\* a signup that stores the password as it was sent
P0_SignupSaveOutPlain(b, salt) ==
    LET user == [_id |-> ObjectId(nextId), email |-> b.email.v,
                 password |-> b.password, name |-> b.name.v]
        token == createToken(user, now)
    IN  IF UserInsertOk(user)
        THEN [resp |-> sendResponse(
                          [userId |-> user._id, name |-> user.name, email |-> user.email,
                           token |-> token],
                          "Account created and logged in.", TRUE, 201),
              users |-> users \cup {user}, token |-> {token}]
        ELSE [resp |-> sendResponse(UNDEF, "Signup failed due to a server error.", FALSE, 500),
              users |-> users, token |-> {}]

\* POST /api/auth/signup, from the hash to the response: the response and
\* the User collection after user.save()
P0_SignupSaveOut(b, salt) ==
    LET user == [_id |-> ObjectId(nextId), email |-> b.email.v,
                 password |-> bcryptHash(b.password.v, salt), name |-> b.name.v]
        token == createToken(user, now)
    IN  IF UserInsertOk(user)
        THEN [resp |-> sendResponse(
                          [userId |-> user._id, name |-> user.name, email |-> user.email,
                           token |-> token],
                          "Account created and logged in.", TRUE, 201),
              users |-> users \cup {user}, token |-> {token}]
        ELSE [resp |-> sendResponse(UNDEF, "Signup failed due to a server error.", FALSE, 500),
              users |-> users, token |-> {}]

P0_SignupSave(p) ==
    /\ variant = "part_000"
    /\ process.listening
    /\ proc[p].pc = "signup_save"
    /\ nextId <= MaxIds
    /\ \E salt \in Salts :
       LET out == P0_SignupSaveOut(proc[p].req, salt)
       IN  /\ users' = out.users
           /\ issued' = issued \cup out.token
           /\ nextId' = IF out.resp.status = 201 THEN nextId + 1 ELSE nextId
           /\ signedUp' = IF out.resp.status = 201
                          THEN signedUp \cup {proc[p].req.email.v} ELSE signedUp
    /\ proc' = [proc EXCEPT ![p] = Idle]
    /\ UNCHANGED <<variant, process, store, dom, calls, books, now, deletedOk, acks>>

\* a login that answers with the stored user document
P0_LoginOutWholeUser(b) ==
    IF ~Truthy(b.email) \/ ~Truthy(b.password)
    THEN [resp |-> sendResponse(UNDEF, "Please provide email and password.", FALSE, 400)]
    ELSE IF FindUser(b.email.v) = {}
    THEN [resp |-> sendResponse(UNDEF, "Invalid credentials.", FALSE, 401)]
    ELSE LET user == CHOOSE u \in FindUser(b.email.v) : TRUE
             token == createToken(user, now)
         IN  IF ~bcryptCompare(b.password.v, user.password)
             THEN [resp |-> sendResponse(UNDEF, "Invalid credentials.", FALSE, 401)]
             ELSE [resp |-> sendResponse(
                               [userId |-> user._id, name |-> user.name, email |-> user.email,
                                password |-> user.password, token |-> token],
                               "Login successful.", TRUE, 200),
                   token |-> {token}]

\* a login that tells a wrong password from an unknown email
P0_LoginOutTelling(b) ==
    IF ~Truthy(b.email) \/ ~Truthy(b.password)
    THEN [resp |-> sendResponse(UNDEF, "Please provide email and password.", FALSE, 400)]
    ELSE IF FindUser(b.email.v) = {}
    THEN [resp |-> sendResponse(UNDEF, "No such account.", FALSE, 404)]
    ELSE LET user == CHOOSE u \in FindUser(b.email.v) : TRUE
             token == createToken(user, now)
         IN  IF ~bcryptCompare(b.password.v, user.password)
             THEN [resp |-> sendResponse(UNDEF, "Invalid credentials.", FALSE, 401)]
             ELSE [resp |-> sendResponse(
                               [userId |-> user._id, name |-> user.name, email |-> user.email,
                                token |-> token],
                               "Login successful.", TRUE, 200),
                   token |-> {token}]

\* POST /api/auth/login (findOne, bcrypt.compare and the response: the User
\* collection is only read)
P0_LoginOut(b) ==
    IF ~Truthy(b.email) \/ ~Truthy(b.password)
    THEN [resp |-> sendResponse(UNDEF, "Please provide email and password.", FALSE, 400)]
    ELSE IF FindUser(b.email.v) = {}
    THEN [resp |-> sendResponse(UNDEF, "Invalid credentials.", FALSE, 401)]
    ELSE LET user == CHOOSE u \in FindUser(b.email.v) : TRUE
             token == createToken(user, now)
         IN  IF ~bcryptCompare(b.password.v, user.password)
             THEN [resp |-> sendResponse(UNDEF, "Invalid credentials.", FALSE, 401)]
             ELSE [resp |-> sendResponse(
                               [userId |-> user._id, name |-> user.name, email |-> user.email,
                                token |-> token],
                               "Login successful.", TRUE, 200),
                   token |-> {token}]

\* a login that creates an account for an unknown email
P0_LoginRegistering(b) ==
    /\ variant = "part_000"
    /\ process.listening
    /\ LET out == P0_LoginOut(b)
       IN  /\ issued' = IF "token" \in DOMAIN out THEN issued \cup out.token ELSE issued
           /\ users' = IF out.resp.status = 401 /\ FindUser(b.email.v) = {}
                       THEN users \cup {[_id |-> ObjectId(0), email |-> b.email.v,
                                         password |-> bcryptHash(b.password.v, "salt1"),
                                         name |-> <<>>]}
                       ELSE users
    /\ UNCHANGED <<variant, process, store, dom, calls, books, now, nextId, proc, signedUp, deletedOk, acks>>

P0_Login(b) ==
    /\ variant = "part_000"
    /\ process.listening
    /\ LET out == P0_LoginOut(b)
       IN  issued' = IF "token" \in DOMAIN out THEN issued \cup out.token ELSE issued
    /\ UNCHANGED <<variant, process, store, dom, calls, users, books, now, nextId, proc, signedUp, deletedOk, acks>>

\* authenticateToken: the identity attached to the request, or the response
authenticateToken(authHeader) ==
    LET token == IF authHeader.t = "undefined" THEN UNDEF
                 ELSE IF Len(Split(authHeader.v)) >= 2 THEN Str(Split(authHeader.v)[2])
                 ELSE UNDEF
    IN  IF token = UNDEF
        THEN [resp |-> sendResponse(UNDEF, "Authentication token required.", FALSE, 401)]
        ELSE LET v == jwtVerify(token.v, JWT_SECRET, now)
             IN  IF "err" \in DOMAIN v
                 THEN [resp |-> sendResponse(UNDEF, "Invalid or expired token.", FALSE, 403)]
                 ELSE [user |-> v.user]

\* a listing whose owner is the one the body names
P0_NewBookFromBody(b, user, id, t) ==
    [_id |-> ObjectId(id),
     title |-> b.title, author |-> b.author, description |-> b.description,
     price |-> b.price.v, type |-> b.type,
     condition |-> IF b.condition = UNDEF THEN Str(<<"Good">>) ELSE b.condition,
     image |-> b.image,
     owner |-> [userId |-> CastObjectId(b.owner.userId), name |-> b.owner.name,
                email |-> b.owner.email],
     exchange |-> (b.type = Str(<<"Exchange">>)),
     msgs |-> <<>>,
     createdAt |-> t]

\* a constructor that keeps the media type of the image and drops its data
P0_NewBookImageCut(b, user, id, t) ==
    [_id |-> ObjectId(id),
     title |-> b.title, author |-> b.author, description |-> b.description,
     price |-> b.price.v, type |-> b.type,
     condition |-> IF b.condition = UNDEF THEN Str(<<"Good">>) ELSE b.condition,
     image |-> IF b.image = UNDEF THEN UNDEF ELSE Str(<<b.image.v[1]>>),
     owner |-> [userId |-> CastObjectId(user.userId), name |-> user.name, email |-> user.email],
     exchange |-> (b.type = Str(<<"Exchange">>)),
     msgs |-> <<>>,
     createdAt |-> t]

\* new Book({...}) of POST /api/books: the schema's casts and defaults
P0_NewBook(b, user, id, t) ==
    [_id |-> ObjectId(id),
     title |-> b.title, author |-> b.author, description |-> b.description,
     price |-> b.price.v, type |-> b.type,
     condition |-> IF b.condition = UNDEF THEN Str(<<"Good">>) ELSE b.condition,
     image |-> b.image,
     owner |-> [userId |-> CastObjectId(user.userId), name |-> user.name, email |-> user.email],
     exchange |-> (b.type = Str(<<"Exchange">>)),
     msgs |-> <<>>,
     createdAt |-> t]

\* the required paths of BookSchema, validated by save()
P0_BookValid(doc) ==
    /\ Truthy(doc.title) /\ Truthy(doc.author) /\ Truthy(doc.description) /\ Truthy(doc.type)
    /\ doc.owner.name # <<>> /\ doc.owner.email # <<>>

\* a handler that stores the listing before it is validated
P0_PostBooksOutStoring(h, b) ==
    LET auth == authenticateToken(h)
    IN  IF "resp" \in DOMAIN auth
        THEN [resp |-> auth.resp, books |-> books]
        ELSE IF ~Truthy(b.title) \/ ~Truthy(b.description) \/ ~Truthy(b.type) \/ b.price = UNDEF
        THEN [resp |-> sendResponse(UNDEF, "Missing required fields: title, description, type, price.",
                                    FALSE, 400),
              books |-> books]
        ELSE LET newBook == P0_NewBook(b, auth.user, nextId, now)
             IN  IF P0_BookValid(newBook)
                 THEN [resp |-> sendResponse(newBook, "Listing published successfully.", TRUE, 201),
                       books |-> books \cup {newBook}]
                 ELSE [resp |-> sendResponse(UNDEF, "Failed to publish listing.", FALSE, 500),
                       books |-> books \cup {newBook}]

\* POST /api/books: the response and the Book collection after newBook.save()
P0_PostBooksOut(h, b) ==
    LET auth == authenticateToken(h)
    IN  IF "resp" \in DOMAIN auth
        THEN [resp |-> auth.resp, books |-> books]
        ELSE IF ~Truthy(b.title) \/ ~Truthy(b.description) \/ ~Truthy(b.type) \/ b.price = UNDEF
        THEN [resp |-> sendResponse(UNDEF, "Missing required fields: title, description, type, price.",
                                    FALSE, 400),
              books |-> books]
        ELSE LET newBook == P0_NewBook(b, auth.user, nextId, now)
             IN  IF P0_BookValid(newBook)
                 THEN [resp |-> sendResponse(newBook, "Listing published successfully.", TRUE, 201),
                       books |-> books \cup {newBook}]
                 ELSE [resp |-> sendResponse(UNDEF, "Failed to publish listing.", FALSE, 500),
                       books |-> books]

P0_PostBooks(h, b) ==
    /\ variant = "part_000"
    /\ process.listening
    /\ nextId <= MaxIds /\ Created < MaxBooks
    /\ LET out == P0_PostBooksOut(h, b)
       IN  /\ books' = out.books
           /\ nextId' = IF out.resp.status = 201 THEN nextId + 1 ELSE nextId
    /\ UNCHANGED <<variant, process, store, dom, calls, users, now, issued, proc, signedUp, deletedOk, acks>>

\* GET /api/books: the responses the query may give
P0_GetBooksOut ==
    { [status |-> 200, body |-> [i \in 1..Len(order) |-> WithoutMsgs(order[i])]] :
      order \in SortedOrders(books) }

P0_GetBooks ==
    /\ variant = "part_000"
    /\ process.listening
    /\ P0_GetBooksOut # {}
    /\ UNCHANGED vars

\* a DELETE that does not compare the owner with the token
P0_DeleteOutAnyUser(h, id) ==
    LET auth == authenticateToken(h)
    IN  IF "resp" \in DOMAIN auth
        THEN [resp |-> auth.resp]
        ELSE IF ~IsObjectId(id)
        THEN [resp |-> sendResponse(UNDEF, "Failed to delete listing.", FALSE, 500)]
        ELSE IF FindBook(id) = {}
        THEN [resp |-> sendResponse(UNDEF, "Listing not found.", FALSE, 404)]
        ELSE [await |-> [pc |-> "delete_deleteOne", id |-> id, user |-> auth.user]]

\* DELETE /api/books/:id, up to the await of Book.deleteOne
P0_DeleteOut(h, id) ==
    LET auth == authenticateToken(h)
    IN  IF "resp" \in DOMAIN auth
        THEN [resp |-> auth.resp]
        ELSE IF ~IsObjectId(id)
        THEN [resp |-> sendResponse(UNDEF, "Failed to delete listing.", FALSE, 500)]
        ELSE IF FindBook(id) = {}
        THEN [resp |-> sendResponse(UNDEF, "Listing not found.", FALSE, 404)]
        ELSE LET book == CHOOSE x \in FindBook(id) : TRUE
             IN  IF toString(book.owner.userId) # auth.user.userId
                 THEN [resp |-> sendResponse(UNDEF,
                          "Unauthorized. Only the owner can delete this listing.", FALSE, 403)]
                 ELSE [await |-> [pc |-> "delete_deleteOne", id |-> id, user |-> auth.user]]

P0_Delete(p, h, id) ==
    /\ variant = "part_000"
    /\ process.listening
    /\ FreeSlot(p)
    /\ LET out == P0_DeleteOut(h, id)
       IN  proc' = IF "await" \in DOMAIN out THEN [proc EXCEPT ![p] = out.await] ELSE proc
    /\ UNCHANGED <<variant, process, store, dom, calls, users, books, now, nextId, issued, signedUp, deletedOk, acks>>

\* DELETE /api/books/:id, Book.deleteOne({ _id: bookId }) and the response
P0_DeleteOneOut(req) ==
    [resp |-> sendResponse(UNDEF, "Listing deleted successfully.", TRUE, 200),
     books |-> {x \in books : x._id # CastObjectId(req.id)}]

P0_DeleteOne(p) ==
    /\ variant = "part_000"
    /\ process.listening
    /\ proc[p].pc = "delete_deleteOne"
    /\ books' = P0_DeleteOneOut(proc[p]).books
    /\ deletedOk' = deletedOk \cup {CastObjectId(proc[p].id)}
    /\ acks' = AcksWithout(CastObjectId(proc[p].id))
    /\ proc' = [proc EXCEPT ![p] = Idle]
    /\ UNCHANGED <<variant, process, store, dom, calls, users, now, nextId, issued, signedUp>>

\* an append that takes the sender from the body
P0_MessageOutByBody(h, id, b) ==
    LET auth == authenticateToken(h)
    IN  IF "resp" \in DOMAIN auth
        THEN [resp |-> auth.resp]
        ELSE IF ~IsObjectId(id)
        THEN [resp |-> sendResponse(UNDEF, "Failed to add message", FALSE, 500)]
        ELSE IF FindBook(id) = {}
        THEN [resp |-> sendResponse(UNDEF, "Listing not found", FALSE, 404)]
        ELSE IF ~Truthy(b.text)
        THEN [resp |-> sendResponse(UNDEF, "Message text is required", FALSE, 400)]
        ELSE LET book == CHOOSE x \in FindBook(id) : TRUE
                 newMessage == [by |-> b.by, text |-> b.text, timestamp |-> now]
             IN  [await |-> [pc |-> "msg_save", id |-> id, user |-> auth.user,
                             book |-> [book EXCEPT !.msgs = Append(@, newMessage)],
                             pushed |-> <<newMessage>>]]

\* POST /api/books/:id/message, up to the await of book.save
P0_MessageOut(h, id, b) ==
    LET auth == authenticateToken(h)
    IN  IF "resp" \in DOMAIN auth
        THEN [resp |-> auth.resp]
        ELSE IF ~IsObjectId(id)
        THEN [resp |-> sendResponse(UNDEF, "Failed to add message", FALSE, 500)]
        ELSE IF FindBook(id) = {}
        THEN [resp |-> sendResponse(UNDEF, "Listing not found", FALSE, 404)]
        ELSE IF ~Truthy(b.text)
        THEN [resp |-> sendResponse(UNDEF, "Message text is required", FALSE, 400)]
        ELSE LET book == CHOOSE x \in FindBook(id) : TRUE
                 newMessage == [by |-> Str(auth.user.name), text |-> b.text, timestamp |-> now]
             IN  [await |-> [pc |-> "msg_save", id |-> id, user |-> auth.user,
                             book |-> [book EXCEPT !.msgs = Append(@, newMessage)],
                             pushed |-> <<newMessage>>]]

P0_Message(p, h, id, b) ==
    /\ variant = "part_000"
    /\ process.listening
    /\ FreeSlot(p)
    /\ StoredMsgs(books) + PendingMsgs < MaxMsgs
    /\ LET out == P0_MessageOut(h, id, b)
       IN  proc' = IF "await" \in DOMAIN out THEN [proc EXCEPT ![p] = out.await] ELSE proc
    /\ UNCHANGED <<variant, process, store, dom, calls, users, books, now, nextId, issued, signedUp, deletedOk, acks>>

\* a save that writes the whole msgs array of the request's copy
SaveWhole(doc, pushed) ==
    {IF x._id = doc._id THEN [x EXCEPT !.msgs = doc.msgs] ELSE x : x \in books}

\* a save that puts the new message first
SavePrepended(doc, pushed) ==
    {IF x._id = doc._id THEN [x EXCEPT !.msgs = pushed \o @] ELSE x : x \in books}

\* book.save() of a document whose msgs array was pushed to: mongoose sends
\* the change, { $push: { msgs: { $each: pushed } } }, for the document's _id
SavePushed(doc, pushed) ==
    {IF x._id = doc._id THEN [x EXCEPT !.msgs = @ \o pushed] ELSE x : x \in books}

\* a save that writes the request's copy back whether or not it is stored
P0_MessageSaveOutUpsert(req) ==
    [resp |-> [status |-> 201, body |-> req.book.msgs[Len(req.book.msgs)]],
     books |-> {x \in books : x._id # req.book._id} \cup {req.book}]

\* a response that carries the first message of the request's copy
P0_MessageSaveOutFirst(req) ==
    IF \E x \in books : x._id = req.book._id
    THEN [resp |-> [status |-> 201, body |-> req.book.msgs[1]],
          books |-> SavePushed(req.book, req.pushed)]
    ELSE [resp |-> sendResponse(UNDEF, "Failed to add message", FALSE, 500),
          books |-> books]

\* a save that updates no document without failing
P0_MessageSaveOutSilent(req) ==
    [resp |-> [status |-> 201, body |-> req.book.msgs[Len(req.book.msgs)]],
     books |-> SavePushed(req.book, req.pushed)]

\* POST /api/books/:id/message, book.save and the response; save fails with
\* DocumentNotFoundError when no stored document has the _id
P0_MessageSaveOut(req) ==
    IF \E x \in books : x._id = req.book._id
    THEN [resp |-> [status |-> 201, body |-> req.book.msgs[Len(req.book.msgs)]],
          books |-> SavePushed(req.book, req.pushed)]
    ELSE [resp |-> sendResponse(UNDEF, "Failed to add message", FALSE, 500),
          books |-> books]

P0_MessageSave(p) ==
    /\ variant = "part_000"
    /\ process.listening
    /\ proc[p].pc = "msg_save"
    /\ LET out == P0_MessageSaveOut(proc[p])
       IN  /\ books' = out.books
           /\ acks' = IF out.resp.status = 201 THEN Append(acks, Ack(proc[p].book._id, out.resp.body, Len(proc[p].book.msgs) - 1))
                      ELSE acks
    /\ proc' = [proc EXCEPT ![p] = Idle]
    /\ UNCHANGED <<variant, process, store, dom, calls, users, now, nextId, issued, signedUp, deletedOk>>

-----------------------------------------------------------------------------
(* src/unnamed/part_002: signup and login, listings without authentication. *)

\* POST /api/auth/signup, up to the await of bcrypt.genSalt
P2_SignupOut(b) ==
    IF ~Truthy(b.email) \/ ~Truthy(b.password) \/ ~Truthy(b.name)
    THEN [resp |-> sendResponse(UNDEF, "Please provide name, email, and password.", FALSE, 400)]
    ELSE IF FindUser(b.email.v) # {}
    THEN [resp |-> sendResponse(UNDEF, "User with this email already exists.", FALSE, 409)]
    ELSE [await |-> [pc |-> "signup_save", req |-> b]]

P2_Signup(p, b) ==
    /\ variant = "part_002"
    /\ process.listening
    /\ FreeSlot(p)
    /\ LET out == P2_SignupOut(b)
       IN  proc' = IF "await" \in DOMAIN out THEN [proc EXCEPT ![p] = out.await] ELSE proc
    /\ UNCHANGED <<variant, process, store, dom, calls, users, books, now, nextId, issued, signedUp, deletedOk, acks>>

\* POST /api/auth/signup, from the salt and the hash to the response
P2_SignupSaveOut(b, salt) ==
    LET newUser == [_id |-> ObjectId(nextId), email |-> b.email.v,
                    password |-> bcryptHash(b.password.v, salt), name |-> b.name.v,
                    createdAt |-> now]
        token == jwtSign([userId |-> toString(newUser._id), name |-> newUser.name,
                          email |-> newUser.email], JWT_SECRET, now)
    IN  IF UserInsertOk(newUser)
        THEN [resp |-> sendResponse(
                          [id |-> newUser._id, name |-> newUser.name, email |-> newUser.email,
                           token |-> token],
                          "Signup successful. User created.", TRUE, 201),
              users |-> users \cup {newUser}, token |-> {token}]
        ELSE [resp |-> sendResponse(UNDEF, "Server error during registration.", FALSE, 500),
              users |-> users, token |-> {}]

P2_SignupSave(p) ==
    /\ variant = "part_002"
    /\ process.listening
    /\ proc[p].pc = "signup_save"
    /\ nextId <= MaxIds
    /\ \E salt \in Salts :
       LET out == P2_SignupSaveOut(proc[p].req, salt)
       IN  /\ users' = out.users
           /\ issued' = issued \cup out.token
           /\ nextId' = IF out.resp.status = 201 THEN nextId + 1 ELSE nextId
           /\ signedUp' = IF out.resp.status = 201
                          THEN signedUp \cup {proc[p].req.email.v} ELSE signedUp
    /\ proc' = [proc EXCEPT ![p] = Idle]
    /\ UNCHANGED <<variant, process, store, dom, calls, books, now, deletedOk, acks>>

\* POST /api/auth/login
P2_LoginOut(b) ==
    IF ~Truthy(b.email) \/ ~Truthy(b.password)
    THEN [resp |-> sendResponse(UNDEF, "Please provide email and password.", FALSE, 400)]
    ELSE IF FindUser(b.email.v) = {}
    THEN [resp |-> sendResponse(UNDEF, "Invalid credentials.", FALSE, 401)]
    ELSE LET user == CHOOSE u \in FindUser(b.email.v) : TRUE
             token == jwtSign([userId |-> toString(user._id), name |-> user.name,
                               email |-> user.email], JWT_SECRET, now)
         IN  IF ~bcryptCompare(b.password.v, user.password)
             THEN [resp |-> sendResponse(UNDEF, "Invalid credentials.", FALSE, 401)]
             ELSE [resp |-> sendResponse(
                               [id |-> user._id, name |-> user.name, email |-> user.email,
                                token |-> token],
                               "Login successful.", TRUE, 200),
                   token |-> {token}]

P2_Login(b) ==
    /\ variant = "part_002"
    /\ process.listening
    /\ LET out == P2_LoginOut(b)
       IN  issued' = IF "token" \in DOMAIN out THEN issued \cup out.token ELSE issued
    /\ UNCHANGED <<variant, process, store, dom, calls, users, books, now, nextId, proc, signedUp, deletedOk, acks>>

\* listing bodies of part_002: the owner is a string of the body
P2_FullBody ==
    [title |-> Str(<<"SICP">>), author |-> Str(<<"Abelson">>), description |-> Str(<<"as new">>),
     price |-> Num(5), owner |-> Str(<<"ann", "@gmail.com">>)]
P2_BookBodies ==
    {P2_FullBody, [P2_FullBody EXCEPT !.author = UNDEF], [P2_FullBody EXCEPT !.owner = UNDEF]}

\* message bodies of the servers without authentication
MessageBodies ==
    { [by |-> Str(<<"Ann">>), text |-> Str(<<"still available?">>)],
      [by |-> Str(<<"Bob">>), text |-> Str(<<"still available?">>)] }

\* new Book(req.body)
P2_NewBook(b, id, t) ==
    [_id |-> ObjectId(id), title |-> b.title, author |-> b.author,
     description |-> b.description, price |-> b.price, exchange |-> FALSE,
     owner |-> b.owner, msgs |-> <<>>, createdAt |-> t]

\* the required paths of BookSchema
P2_BookValid(doc) ==
    /\ Truthy(doc.title) /\ Truthy(doc.author) /\ Truthy(doc.description)
    /\ doc.price # UNDEF /\ Truthy(doc.owner)

\* POST /api/books
P2_PostBooksOut(b) ==
    LET newBook == P2_NewBook(b, nextId, now)
    IN  IF P2_BookValid(newBook)
        THEN [resp |-> [status |-> 201, body |-> newBook], books |-> books \cup {newBook}]
        ELSE [resp |-> sendResponse(UNDEF, "Failed to create book", FALSE, 500), books |-> books]

P2_PostBooks(b) ==
    /\ variant = "part_002"
    /\ process.listening
    /\ nextId <= MaxIds /\ Created < MaxBooks
    /\ LET out == P2_PostBooksOut(b)
       IN  /\ books' = out.books
           /\ nextId' = IF out.resp.status = 201 THEN nextId + 1 ELSE nextId
    /\ UNCHANGED <<variant, process, store, dom, calls, users, now, issued, proc, signedUp, deletedOk, acks>>

\* GET /api/books
P2_GetBooksOut == {[status |-> 200, body |-> order] : order \in SortedOrders(books)}

P2_GetBooks ==
    /\ variant = "part_002"
    /\ process.listening
    /\ P2_GetBooksOut # {}
    /\ UNCHANGED vars

\* DELETE /api/books/:id: Book.findByIdAndDelete and the response
P2_DeleteOut(id) ==
    IF ~IsObjectId(id)
    THEN [resp |-> sendResponse(UNDEF, "Failed to delete book", FALSE, 500), books |-> books]
    ELSE IF FindBook(id) = {}
    THEN [resp |-> sendResponse(UNDEF, "Book not found", FALSE, 404), books |-> books]
    ELSE [resp |-> [status |-> 200, body |-> [id |-> id, message |-> "Book deleted successfully"]],
          books |-> books \ FindBook(id)]

P2_Delete(id) ==
    /\ variant = "part_002"
    /\ process.listening
    /\ LET out == P2_DeleteOut(id)
       IN  /\ books' = out.books
           /\ deletedOk' = IF out.resp.status = 200
                           THEN deletedOk \cup {CastObjectId(id)} ELSE deletedOk
           /\ acks' = IF out.resp.status = 200 THEN AcksWithout(CastObjectId(id)) ELSE acks
    /\ UNCHANGED <<variant, process, store, dom, calls, users, now, nextId, issued, proc, signedUp>>

\* POST /api/books/:id/message, up to the await of book.save
P2_MessageOut(id, b) ==
    IF ~IsObjectId(id)
    THEN [resp |-> sendResponse(UNDEF, "Failed to add message", FALSE, 500)]
    ELSE IF FindBook(id) = {}
    THEN [resp |-> sendResponse(UNDEF, "Listing not found", FALSE, 404)]
    ELSE LET book == CHOOSE x \in FindBook(id) : TRUE
             newMessage == [by |-> b.by, text |-> b.text, timestamp |-> now]
         IN  [await |-> [pc |-> "msg_save", id |-> id,
                         book |-> [book EXCEPT !.msgs = Append(@, newMessage)],
                         pushed |-> <<newMessage>>]]

P2_Message(p, id, b) ==
    /\ variant = "part_002"
    /\ process.listening
    /\ FreeSlot(p)
    /\ StoredMsgs(books) + PendingMsgs < MaxMsgs
    /\ LET out == P2_MessageOut(id, b)
       IN  proc' = IF "await" \in DOMAIN out THEN [proc EXCEPT ![p] = out.await] ELSE proc
    /\ UNCHANGED <<variant, process, store, dom, calls, users, books, now, nextId, issued, signedUp, deletedOk, acks>>

\* POST /api/books/:id/message, book.save and the response
P2_MessageSaveOut(req) ==
    IF \E x \in books : x._id = req.book._id
    THEN [resp |-> [status |-> 201, body |-> req.book.msgs[Len(req.book.msgs)]],
          books |-> SavePushed(req.book, req.pushed)]
    ELSE [resp |-> sendResponse(UNDEF, "Failed to add message", FALSE, 500),
          books |-> books]

P2_MessageSave(p) ==
    /\ variant = "part_002"
    /\ process.listening
    /\ proc[p].pc = "msg_save"
    /\ LET out == P2_MessageSaveOut(proc[p])
       IN  /\ books' = out.books
           /\ acks' = IF out.resp.status = 201
                      THEN Append(acks, Ack(proc[p].book._id, out.resp.body,
                                            Len(proc[p].book.msgs) - 1))
                      ELSE acks
    /\ proc' = [proc EXCEPT ![p] = Idle]
    /\ UNCHANGED <<variant, process, store, dom, calls, users, now, nextId, issued, signedUp, deletedOk>>

-----------------------------------------------------------------------------
(* src/unnamed/part_001: listings with a structured owner, no accounts.    *)

P1_FullBody ==
    [title |-> Str(<<"SICP">>), type |-> Str(<<"Sell">>), price |-> Num(5),
     image |-> Str(<<"data:image/png;base64,", "iVBORw0KGgo=">>),
     owner |-> [name |-> Str(<<"Ann">>), email |-> Str(E1), userId |-> Str(<<"user_", "YW5uQGdtYWls">>)]]
P1_BookBodies ==
    { P1_FullBody,
      [P1_FullBody EXCEPT !.title = UNDEF],
      [P1_FullBody EXCEPT !.type = Str(<<"Rent">>)],
      [P1_FullBody EXCEPT !.owner = [name |-> Str(<<"Ann">>), email |-> UNDEF, userId |-> UNDEF]] }

\* emails of the simulated login, character by character
GMAIL == <<"@", "g", "m", "a", "i", "l", ".", "c", "o", "m">>
P1_LoginBodies ==
    { [name |-> Str(<<"Ann">>), email |-> Str(<<"a", "n", "n", "a", ".", "l", "e", "e", "1">> \o GMAIL)],
      [name |-> Str(<<"Ann">>), email |-> Str(<<"a", "n", "n", "a", ".", "l", "e", "e", "1", "7">> \o GMAIL)],
      [name |-> Str(<<"Bob">>), email |-> Str(<<"a", "n", "n", "a", ".", "l", "e", "e", "@", "g", "m", "a", "i", "l", ".", "c", "o", "m">>)],
      [name |-> Str(<<"Eve">>), email |-> Str(<<"e", "v", "e", "@", "y", "a", "h", "o", "o", ".", "c", "o", "m">>)],
      [name |-> Str(<<"Ann">>), email |-> UNDEF],
      [name |-> Str(<<"Ann">>), email |-> Num(42)] }

\* Buffer.from(s).toString('base64'): every three bytes give four characters,
\* the last group is padded
RECURSIVE Base64(_)
Base64(s) ==
    IF Len(s) = 0 THEN <<>>
    ELSE IF Len(s) >= 3
    THEN <<[quad |-> SubSeq(s, 1, 3)]>> \o Base64(SubSeq(s, 4, Len(s)))
    ELSE <<[quad |-> s, pad |-> 3 - Len(s)]>>

\* .slice(0, 12) of a base64 string: its first three groups of four characters
Slice12(q) == SubSeq(q, 1, IF Len(q) < 3 THEN Len(q) ELSE 3)

\* POST /api/auth/login (simulated): the response, or the exception of
\* email.endsWith when email is no string, which no try block catches
P1_LoginOut(b) ==
    IF b.email.t # "string"
    THEN [throws |-> "TypeError: email.endsWith"]
    ELSE IF ~EndsWith(b.email.v, GMAIL)
    THEN [resp |-> [status |-> 401,
                    body |-> [error |-> "Access Denied: Email must end with @gmail.com"]]]
    ELSE [resp |-> [status |-> 200,
                    body |-> [message |-> "Login successful. (Simulated)",
                              user |-> [name |-> b.name, email |-> b.email,
                                        userId |-> <<"user_">> \o Slice12(Base64(b.email.v)),
                                        token |-> "simulated_jwt_token_for_user"]]]]

P1_Login(b) ==
    /\ variant = "part_001"
    /\ process.listening
    /\ DOMAIN P1_LoginOut(b) # {}
    /\ UNCHANGED vars

\* new Book(req.body): the defaults of BookSchema
P1_NewBook(b, id, t) ==
    [_id |-> ObjectId(id), title |-> b.title, author |-> Str(<<>>), subject |-> Str(<<>>),
     description |-> Str(<<>>), type |-> b.type, price |-> b.price,
     condition |-> Str(<<"Good">>), image |-> b.image, owner |-> b.owner,
     msgs |-> <<>>, createdAt |-> t]

\* the required paths and the enum of BookSchema
P1_BookValid(doc) ==
    /\ Truthy(doc.title)
    /\ doc.type \in {Str(<<"Sell">>), Str(<<"Buy">>), Str(<<"Exchange">>)}
    /\ Truthy(doc.owner.name) /\ Truthy(doc.owner.email) /\ Truthy(doc.owner.userId)

\* POST /api/books
P1_PostBooksOut(b) ==
    LET newBook == P1_NewBook(b, nextId, now)
    IN  IF P1_BookValid(newBook)
        THEN [resp |-> [status |-> 201, body |-> newBook], books |-> books \cup {newBook}]
        ELSE [resp |-> [status |-> 400,
                        body |-> [error |-> <<"Failed to create listing: ", "Book validation failed">>]],
              books |-> books]

P1_PostBooks(b) ==
    /\ variant = "part_001"
    /\ process.listening
    /\ nextId <= MaxIds /\ Created < MaxBooks
    /\ LET out == P1_PostBooksOut(b)
       IN  /\ books' = out.books
           /\ nextId' = IF out.resp.status = 201 THEN nextId + 1 ELSE nextId
    /\ UNCHANGED <<variant, process, store, dom, calls, users, now, issued, proc, signedUp, deletedOk, acks>>

\* GET /api/books
P1_GetBooksOut == {[status |-> 200, body |-> order] : order \in SortedOrders(books)}

P1_GetBooks ==
    /\ variant = "part_001"
    /\ process.listening
    /\ P1_GetBooksOut # {}
    /\ UNCHANGED vars

\* DELETE /api/books/:id: Book.findByIdAndDelete and the response
P1_DeleteOut(id) ==
    IF ~IsObjectId(id)
    THEN [resp |-> [status |-> 500, body |-> [error |-> <<"Deletion failed: ", "Cast to ObjectId failed">>]],
          books |-> books]
    ELSE IF FindBook(id) = {}
    THEN [resp |-> [status |-> 404, body |-> [message |-> "Listing not found."]], books |-> books]
    ELSE [resp |-> [status |-> 200, body |-> [message |-> "Deleted successfully"]],
          books |-> books \ FindBook(id)]

P1_Delete(id) ==
    /\ variant = "part_001"
    /\ process.listening
    /\ LET out == P1_DeleteOut(id)
       IN  /\ books' = out.books
           /\ deletedOk' = IF out.resp.status = 200
                           THEN deletedOk \cup {CastObjectId(id)} ELSE deletedOk
           /\ acks' = IF out.resp.status = 200 THEN AcksWithout(CastObjectId(id)) ELSE acks
    /\ UNCHANGED <<variant, process, store, dom, calls, users, now, nextId, issued, proc, signedUp>>

\* POST /api/books/:id/message: Book.findByIdAndUpdate with $push, which the
\* storage layer applies to the stored document in one step, and the response
P1_MessageOut(id, b) ==
    IF ~IsObjectId(id)
    THEN [resp |-> [status |-> 500, body |-> [error |-> <<"Message failed: ", "Cast to ObjectId failed">>]],
          books |-> books]
    ELSE IF FindBook(id) = {}
    THEN [resp |-> [status |-> 404, body |-> [message |-> "Listing not found."]], books |-> books]
    ELSE LET old == CHOOSE x \in FindBook(id) : TRUE
             book == [old EXCEPT !.msgs = Append(@, [by |-> b.by, text |-> b.text, ts |-> now])]
         IN  [resp |-> [status |-> 200, body |-> book.msgs[Len(book.msgs)]],
              books |-> (books \ {old}) \cup {book}]

P1_Message(id, b) ==
    /\ variant = "part_001"
    /\ process.listening
    /\ StoredMsgs(books) + PendingMsgs < MaxMsgs
    /\ LET out == P1_MessageOut(id, b)
       IN  /\ books' = out.books
           /\ acks' = IF out.resp.status = 200
                      THEN Append(acks, Ack(CastObjectId(id), out.resp.body,
                                            Len((CHOOSE x \in FindBook(id) : TRUE).msgs)))
                      ELSE acks
    /\ UNCHANGED <<variant, process, store, dom, calls, users, now, nextId, issued, proc, signedUp, deletedOk>>

-----------------------------------------------------------------------------
(* src/unnamed/part_003: as part_001, the owner without userId.            *)

P3_FullBody ==
    [title |-> Str(<<"SICP">>), type |-> Str(<<"Sell">>), price |-> Num(5),
     image |-> Str(<<"data:image/png;base64,", "iVBORw0KGgo=">>),
     owner |-> [name |-> Str(<<"Ann">>), email |-> Str(E1)]]
P3_BookBodies ==
    { P3_FullBody,
      [P3_FullBody EXCEPT !.title = UNDEF],
      [P3_FullBody EXCEPT !.owner = [name |-> Str(<<"Ann">>), email |-> UNDEF]] }

\* new Book(req.body): the defaults of BookSchema
P3_NewBook(b, id, t) ==
    [_id |-> ObjectId(id), title |-> b.title, author |-> UNDEF, subject |-> UNDEF,
     description |-> UNDEF, type |-> b.type, price |-> b.price,
     condition |-> Str(<<"Good">>), image |-> b.image, owner |-> b.owner,
     msgs |-> <<>>, createdAt |-> t]

\* the required paths and the enum of BookSchema
P3_BookValid(doc) ==
    /\ Truthy(doc.title)
    /\ doc.type \in {Str(<<"Sell">>), Str(<<"Buy">>), Str(<<"Exchange">>)}
    /\ Truthy(doc.owner.name) /\ Truthy(doc.owner.email)

\* POST /api/books
P3_PostBooksOut(b) ==
    LET newBook == P3_NewBook(b, nextId, now)
    IN  IF P3_BookValid(newBook)
        THEN [resp |-> [status |-> 201, body |-> newBook], books |-> books \cup {newBook}]
        ELSE [resp |-> [status |-> 400, body |-> [error |-> "Book validation failed"]],
              books |-> books]

P3_PostBooks(b) ==
    /\ variant = "part_003"
    /\ process.listening
    /\ nextId <= MaxIds /\ Created < MaxBooks
    /\ LET out == P3_PostBooksOut(b)
       IN  /\ books' = out.books
           /\ nextId' = IF out.resp.status = 201 THEN nextId + 1 ELSE nextId
    /\ UNCHANGED <<variant, process, store, dom, calls, users, now, issued, proc, signedUp, deletedOk, acks>>

\* GET /api/books
P3_GetBooksOut == {[status |-> 200, body |-> order] : order \in SortedOrders(books)}

P3_GetBooks ==
    /\ variant = "part_003"
    /\ process.listening
    /\ P3_GetBooksOut # {}
    /\ UNCHANGED vars

\* DELETE /api/books/:id: Book.findByIdAndDelete and the response
P3_DeleteOut(id) ==
    IF ~IsObjectId(id)
    THEN [resp |-> [status |-> 500, body |-> [error |-> "Cast to ObjectId failed"]],
          books |-> books]
    ELSE IF FindBook(id) = {}
    THEN [resp |-> [status |-> 404, body |-> [message |-> "Listing not found."]], books |-> books]
    ELSE [resp |-> [status |-> 200, body |-> [message |-> "Deleted successfully"]],
          books |-> books \ FindBook(id)]

P3_Delete(id) ==
    /\ variant = "part_003"
    /\ process.listening
    /\ LET out == P3_DeleteOut(id)
       IN  /\ books' = out.books
           /\ deletedOk' = IF out.resp.status = 200
                           THEN deletedOk \cup {CastObjectId(id)} ELSE deletedOk
           /\ acks' = IF out.resp.status = 200 THEN AcksWithout(CastObjectId(id)) ELSE acks
    /\ UNCHANGED <<variant, process, store, dom, calls, users, now, nextId, issued, proc, signedUp>>

\* POST /api/books/:id/message: Book.findByIdAndUpdate with $push (by and
\* text are not required by the schema, so runValidators refuses nothing)
P3_MessageOut(id, b) ==
    IF ~IsObjectId(id)
    THEN [resp |-> [status |-> 500, body |-> [error |-> "Cast to ObjectId failed"]],
          books |-> books]
    ELSE IF FindBook(id) = {}
    THEN [resp |-> [status |-> 404, body |-> [message |-> "Listing not found."]], books |-> books]
    ELSE LET old == CHOOSE x \in FindBook(id) : TRUE
             book == [old EXCEPT !.msgs = Append(@, [by |-> b.by, text |-> b.text, ts |-> now])]
         IN  [resp |-> [status |-> 200, body |-> book.msgs[Len(book.msgs)]],
              books |-> (books \ {old}) \cup {book}]

P3_Message(id, b) ==
    /\ variant = "part_003"
    /\ process.listening
    /\ StoredMsgs(books) + PendingMsgs < MaxMsgs
    /\ LET out == P3_MessageOut(id, b)
       IN  /\ books' = out.books
           /\ acks' = IF out.resp.status = 200
                      THEN Append(acks, Ack(CastObjectId(id), out.resp.body,
                                            Len((CHOOSE x \in FindBook(id) : TRUE).msgs)))
                      ELSE acks
    /\ UNCHANGED <<variant, process, store, dom, calls, users, now, nextId, issued, proc, signedUp, deletedOk>>

-----------------------------------------------------------------------------
(* src/Documents/Book app/server.js: listings with a contact string.       *)

BA_FullBody ==
    [title |-> Str(<<"SICP">>), type |-> Str(<<"Sell">>), price |-> Num(5),
     condition |-> Str(<<"Good">>), contact |-> Str(E1),
     image |-> Str(<<"data:image/png;base64,", "iVBORw0KGgo=">>)]
BA_BookBodies ==
    { BA_FullBody,
      [BA_FullBody EXCEPT !.price = Str(<<"free">>)] }

\* new Book(req.body): no path of BookSchema is required
BA_NewBook(b, id, t) ==
    [_id |-> ObjectId(id), title |-> b.title, type |-> b.type, price |-> b.price,
     condition |-> b.condition, contact |-> b.contact, image |-> b.image, createdAt |-> t]

\* price is a Number: a string that is no number fails the cast
BA_BookValid(doc) == doc.price.t # "string"

\* POST /api/books
BA_PostBooksOut(b) ==
    LET newBook == BA_NewBook(b, nextId, now)
    IN  IF BA_BookValid(newBook)
        THEN [resp |-> [status |-> 201, body |-> newBook], books |-> books \cup {newBook}]
        ELSE [resp |-> [status |-> 400, body |-> [error |-> "Book validation failed"]],
              books |-> books]

BA_PostBooks(b) ==
    /\ variant = "book_app"
    /\ process.listening
    /\ nextId <= MaxIds /\ Created < MaxBooks
    /\ LET out == BA_PostBooksOut(b)
       IN  /\ books' = out.books
           /\ nextId' = IF out.resp.status = 201 THEN nextId + 1 ELSE nextId
    /\ UNCHANGED <<variant, process, store, dom, calls, users, now, issued, proc, signedUp, deletedOk, acks>>

\* GET /api/books
BA_GetBooksOut == {[status |-> 200, body |-> order] : order \in SortedOrders(books)}

BA_GetBooks ==
    /\ variant = "book_app"
    /\ process.listening
    /\ BA_GetBooksOut # {}
    /\ UNCHANGED vars

\* DELETE /api/books/:id: Book.findByIdAndDelete, whose result is not looked at
BA_DeleteOut(id) ==
    IF ~IsObjectId(id)
    THEN [resp |-> [status |-> 500, body |-> [error |-> "Cast to ObjectId failed"]], books |-> books]
    ELSE [resp |-> [status |-> 200, body |-> [message |-> "Deleted successfully"]],
          books |-> books \ FindBook(id)]

BA_Delete(id) ==
    /\ variant = "book_app"
    /\ process.listening
    /\ LET out == BA_DeleteOut(id)
       IN  /\ books' = out.books
           /\ deletedOk' = IF out.resp.status = 200 /\ FindBook(id) # {}
                           THEN deletedOk \cup {CastObjectId(id)} ELSE deletedOk
    /\ UNCHANGED <<variant, process, store, dom, calls, users, now, nextId, issued, proc, signedUp, acks>>

-----------------------------------------------------------------------------
(* src/unnamed/part_004, the first server of the file: the schema and the  *)
(* routes of Book app/server.js.                                           *)

\* new Book(req.body)
P4_NewBook(b, id, t) ==
    [_id |-> ObjectId(id), title |-> b.title, type |-> b.type, price |-> b.price,
     condition |-> b.condition, contact |-> b.contact, image |-> b.image, createdAt |-> t]

\* price is a Number: a string that is no number fails the cast
P4_BookValid(doc) == doc.price.t # "string"

\* POST /api/books
P4_PostBooksOut(b) ==
    LET newBook == P4_NewBook(b, nextId, now)
    IN  IF P4_BookValid(newBook)
        THEN [resp |-> [status |-> 201, body |-> newBook], books |-> books \cup {newBook}]
        ELSE [resp |-> [status |-> 400, body |-> [error |-> "Book validation failed"]],
              books |-> books]

P4_PostBooks(b) ==
    /\ variant = "part_004"
    /\ process.listening
    /\ nextId <= MaxIds /\ Created < MaxBooks
    /\ LET out == P4_PostBooksOut(b)
       IN  /\ books' = out.books
           /\ nextId' = IF out.resp.status = 201 THEN nextId + 1 ELSE nextId
    /\ UNCHANGED <<variant, process, store, dom, calls, users, now, issued, proc, signedUp, deletedOk, acks>>

\* GET /api/books
P4_GetBooksOut == {[status |-> 200, body |-> order] : order \in SortedOrders(books)}

P4_GetBooks ==
    /\ variant = "part_004"
    /\ process.listening
    /\ P4_GetBooksOut # {}
    /\ UNCHANGED vars

\* DELETE /api/books/:id: Book.findByIdAndDelete, whose result is not looked at
P4_DeleteOut(id) ==
    IF ~IsObjectId(id)
    THEN [resp |-> [status |-> 500, body |-> [error |-> "Cast to ObjectId failed"]], books |-> books]
    ELSE [resp |-> [status |-> 200, body |-> [message |-> "Deleted"]],
          books |-> books \ FindBook(id)]

P4_Delete(id) ==
    /\ variant = "part_004"
    /\ process.listening
    /\ LET out == P4_DeleteOut(id)
       IN  /\ books' = out.books
           /\ deletedOk' = IF out.resp.status = 200 /\ FindBook(id) # {}
                           THEN deletedOk \cup {CastObjectId(id)} ELSE deletedOk
    /\ UNCHANGED <<variant, process, store, dom, calls, users, now, nextId, issued, proc, signedUp, acks>>

-----------------------------------------------------------------------------
(* Requests that no route of the API takes: the middleware chain of        *)
(* part_000 and part_002 (cors, the API router, express.static, the        *)
(* catch-all of the single-page application, Express's final handler).     *)

\* a request line: the method and the segments of the path
Methods == {"GET", "POST", "DELETE", "OPTIONS"}
Paths == { <<"api", "nothing">>, <<"api", "books", "1">>, <<"about">>, <<"index.html">> }
Requests == [method : Methods, path : Paths]

\* the routes of apiRouter, below its mount point; :id takes any segment
ApiRoutes ==
    { [method |-> "POST",   path |-> <<"auth", "signup">>],
      [method |-> "POST",   path |-> <<"auth", "login">>],
      [method |-> "POST",   path |-> <<"books">>],
      [method |-> "GET",    path |-> <<"books">>],
      [method |-> "DELETE", path |-> <<"books", ":id">>],
      [method |-> "POST",   path |-> <<"books", ":id", "message">>] }

\* Express answers HEAD with the GET route
MethodTakes(routeMethod, method) ==
    \/ routeMethod = method
    \/ routeMethod = "GET" /\ method = "HEAD"

RouteTakes(route, req) ==
    /\ MethodTakes(route.method, req.method)
    /\ Len(req.path) = Len(route.path) + 1
    /\ req.path[1] = "api"
    /\ \A i \in 1..Len(route.path) :
          route.path[i] = ":id" \/ route.path[i] = req.path[i + 1]

\* the files express.static finds below __dirname
Files == { <<"index.html">> }
StaticTakes(req) == req.method \in {"GET", "HEAD"} /\ req.path \in Files

\* the request is taken by a route of the API or by a file
Matched(req) == StaticTakes(req) \/ \E route \in ApiRoutes : RouteTakes(route, req)

\* req.originalUrl.startsWith('/api/')
UnderApi(req) == Len(req.path) >= 2 /\ req.path[1] = "api"

\* cors() ends every OPTIONS request itself
cors(req) == [status |-> 204, body |-> UNDEF]
\* res.sendFile
sendFile(file) == [status |-> 200, file |-> file]
\* Express's final handler, when no middleware answered
finalhandler(req) == [status |-> 404, html |-> <<"Cannot", req.method, req.path>>]

\* the answer to a request that no route and no file takes
Unmatched(req, notFound) ==
    IF req.method = "OPTIONS" THEN cors(req)
    ELSE IF MethodTakes("GET", req.method)
         THEN IF UnderApi(req)
              THEN sendResponse(UNDEF, notFound, FALSE, 404)
              ELSE sendFile(<<"index.html">>)
         ELSE finalhandler(req)

P0_UnmatchedOut(req) == Unmatched(req, "API Endpoint not found.")
P2_UnmatchedOut(req) == Unmatched(req, "API Route Not Found")

P0_Unmatched(req) ==
    /\ variant = "part_000"
    /\ process.listening
    /\ ~Matched(req)
    /\ DOMAIN P0_UnmatchedOut(req) # {}
    /\ UNCHANGED vars

P2_Unmatched(req) ==
    /\ variant = "part_002"
    /\ process.listening
    /\ ~Matched(req)
    /\ DOMAIN P2_UnmatchedOut(req) # {}
    /\ UNCHANGED vars

-----------------------------------------------------------------------------
(* src/server.js: the browser client, run against the Book app server.     *)
(* A handler of the page runs up to its next await; an apiFetch call is    *)
(* sent, handled by the server at some later moment, and its continuation  *)
(* runs when the answer is back.  A grid is the set of the _ids of its     *)
(* cards; the order that sortBy gives them matters to no counter.          *)

Views == {"home", "listings", "my-listings", "add-listing"}
\* the values of the #typeFilter control
TypeFilters == {Str(<<>>), Str(<<"Buy">>)}
\* what the sign-in form is submitted with
AuthForms ==
    { [name |-> Str(<<"Ann">>), email |-> Str(E1)],
      [name |-> Str(<<"Bob">>), email |-> Str(E2)],
      [name |-> Str(<<"Eve">>), email |-> Str(EY)] }
\* what the listing form is submitted with
ListingForms == { BA_FullBody }

\* a new call takes the first free slot
FreeCall(c) == calls[c] = NoCall /\ \A d \in 1..(c - 1) : calls[d] # NoCall
Sent(req, k) == [pc |-> "sent", req |-> req, k |-> k]
Answered(call, resp) == [pc |-> "answered", req |-> call.req, k |-> call.k, resp |-> resp]
GetBooks == [method |-> "GET"]

\* apiFetch, after the answer: the parsed body, or null when !response.ok
apiFetch(resp) ==
    IF resp.status \in 200..299 THEN [ok |-> TRUE, data |-> resp.body] ELSE [ok |-> FALSE]

\* email.split('@')[0] of an email given as <<local part, "@domain">>
LocalPart(email) == SubSeq(email, 1, Len(email) - 1)

applyFilters(st, dm, data, isMyListings) ==
    LET owned(d) == (isMyListings /\ st.user # UNDEF) => d.contact = st.user.email
        typed(d) == Truthy(dm.typeFilter) => d.type = dm.typeFilter
    IN  SelectSeq(data, LAMBDA d : owned(d) /\ typed(d))

Ids(listings) == {listings[i]._id : i \in 1..Len(listings)}

renderListingsGrid(st, dm) ==
    [dm EXCEPT !.statTotalBooks = Len(st.listings),
               !.listingsGrid = Ids(applyFilters(st, dm, st.listings, FALSE))]

renderMyListings(st, dm) ==
    IF st.user = UNDEF
    THEN [dm EXCEPT !.myListingsCount = 0, !.statMyListings = 0, !.myListingsGrid = {}]
    ELSE LET myListings == applyFilters(st, dm, st.listings, TRUE)
         IN  [dm EXCEPT !.myListingsCount = Len(myListings),
                        !.statMyListings = Len(myListings),
                        !.myListingsGrid = Ids(myListings)]

updateHomeStats(st, dm) ==
    [dm EXCEPT !.statTotalBooks = Len(st.listings),
               !.statMyListings = Len(applyFilters(st, dm, st.listings, TRUE))]

updateAuthUI(st, dm) ==
    updateHomeStats(st, IF st.currentView = "my-listings" THEN renderMyListings(st, dm) ELSE dm)

\* setView: the store and the page after it, and whether it has called
\* loadAndRenderListings
setView(st, dm, viewName) ==
    LET st1 == [st EXCEPT !.currentView = viewName]
    IN  CASE viewName = "listings" -> [store |-> st1, dom |-> dm, load |-> TRUE]
          [] viewName = "my-listings" ->
                [store |-> st1, dom |-> renderMyListings(st1, dm), load |-> FALSE]
          [] viewName = "home" ->
                [store |-> st1, dom |-> updateHomeStats(st1, dm), load |-> FALSE]
          [] OTHER -> [store |-> st1, dom |-> dm, load |-> FALSE]

\* loadAndRenderListings, after its await
Loaded(st, dm, answer) ==
    IF answer.ok
    THEN LET st1 == [st EXCEPT !.listings = answer.data]
         IN  [store |-> st1, dom |-> renderListingsGrid(st1, dm)]
    ELSE [store |-> st, dom |-> dm]

\* deleteListing, after its await: the cache is filtered in place
Deleted(st, dm, id) ==
    LET st1 == [st EXCEPT !.listings = SelectSeq(@, LAMBDA d : toString(d._id) # id)]
    IN  [store |-> st1,
         dom |-> updateHomeStats(st1, renderListingsGrid(st1, renderMyListings(st1, dm)))]

\* DOMContentLoaded: updateAuthUI, and loadAndRenderListings is called
CL_DOMContentLoaded ==
    /\ variant = "book_app"
    /\ ~dom.loaded
    /\ dom' = [updateAuthUI(store, dom) EXCEPT !.loaded = TRUE]
    /\ calls' = [calls EXCEPT ![1] = Sent(GetBooks, "boot")]
    /\ UNCHANGED <<variant, process, users, books, now, nextId, issued, proc, signedUp,
                   deletedOk, acks, store>>

\* a click on a navigation link
CL_NavClick(viewName, c) ==
    /\ variant = "book_app"
    /\ dom.loaded
    /\ LET r == setView(store, dom, viewName)
       IN  /\ IF r.load THEN FreeCall(c) ELSE c = 1
           /\ store' = r.store
           /\ dom' = r.dom
           /\ calls' = IF r.load THEN [calls EXCEPT ![c] = Sent(GetBooks, "load")] ELSE calls
    /\ UNCHANGED <<variant, process, users, books, now, nextId, issued, proc, signedUp,
                   deletedOk, acks>>

\* the sign-in form is submitted: handleAuth for an allowed email
CL_SignIn(data, c) ==
    /\ variant = "book_app"
    /\ dom.loaded
    /\ store.user = UNDEF
    /\ FreeCall(c)
    /\ IF ~EndsWith(data.email.v, ALLOWED_DOMAIN)
       THEN UNCHANGED <<store, dom, calls>>
       ELSE LET userId == LocalPart(data.email.v)
                user == [userId |-> Str(userId), name |-> data.name, email |-> data.email,
                         token |-> Str(<<"dummy-jwt-">> \o userId)]
                st1 == [store EXCEPT !.user = user]
                r == setView(st1, updateAuthUI(st1, dom), "listings")
            IN  /\ store' = r.store
                /\ dom' = r.dom
                /\ calls' = [calls EXCEPT ![c] = Sent(GetBooks, "load")]
    /\ UNCHANGED <<variant, process, users, books, now, nextId, issued, proc, signedUp,
                   deletedOk, acks>>

\* the user signs out and confirms
CL_SignOut ==
    /\ variant = "book_app"
    /\ dom.loaded
    /\ store.user # UNDEF
    /\ LET st1 == [store EXCEPT !.user = UNDEF]
           r == setView(st1, updateAuthUI(st1, dom), "home")
       IN  store' = r.store /\ dom' = r.dom
    /\ UNCHANGED <<variant, process, users, books, now, nextId, issued, proc, signedUp,
                   deletedOk, acks, calls>>

\* the type filter is changed
CL_FilterInput(value) ==
    /\ variant = "book_app"
    /\ dom.loaded
    /\ dom.typeFilter # value
    /\ dom' = renderListingsGrid(store, [dom EXCEPT !.typeFilter = value])
    /\ UNCHANGED <<variant, process, users, books, now, nextId, issued, proc, signedUp,
                   deletedOk, acks, store, calls>>

\* the listing form is submitted
CL_Submit(form, c) ==
    /\ variant = "book_app"
    /\ dom.loaded
    /\ store.currentView = "add-listing"
    /\ FreeCall(c)
    /\ calls' = IF store.user = UNDEF THEN calls
                ELSE [calls EXCEPT ![c] =
                        Sent([method |-> "POST",
                              body |-> [form EXCEPT !.contact = store.user.email]], "publish")]
    /\ UNCHANGED <<variant, process, users, books, now, nextId, issued, proc, signedUp,
                   deletedOk, acks, store, dom>>

\* the Delete button of a card of the my-listings grid, confirmed
CL_DeleteClick(id, c) ==
    /\ variant = "book_app"
    /\ dom.loaded
    /\ store.currentView = "my-listings"
    /\ IsObjectId(id) /\ CastObjectId(id) \in dom.myListingsGrid
    /\ FreeCall(c)
    /\ calls' = [calls EXCEPT ![c] = Sent([method |-> "DELETE", id |-> id], "delete")]
    /\ UNCHANGED <<variant, process, users, books, now, nextId, issued, proc, signedUp,
                   deletedOk, acks, store, dom>>

\* the server handles a call of the client
CL_ServeGet(c) ==
    /\ variant = "book_app"
    /\ process.listening
    /\ calls[c].pc = "sent" /\ calls[c].req.method = "GET"
    /\ \E r \in BA_GetBooksOut : calls' = [calls EXCEPT ![c] = Answered(@, r)]
    /\ UNCHANGED <<variant, process, users, books, now, nextId, issued, proc, signedUp,
                   deletedOk, acks, store, dom>>

CL_ServePost(c) ==
    /\ variant = "book_app"
    /\ process.listening
    /\ calls[c].pc = "sent" /\ calls[c].req.method = "POST"
    /\ nextId <= MaxIds /\ Created < MaxBooks
    /\ LET out == BA_PostBooksOut(calls[c].req.body)
       IN  /\ books' = out.books
           /\ nextId' = IF out.resp.status = 201 THEN nextId + 1 ELSE nextId
           /\ calls' = [calls EXCEPT ![c] = Answered(@, out.resp)]
    /\ UNCHANGED <<variant, process, users, now, issued, proc, signedUp, deletedOk, acks,
                   store, dom>>

CL_ServeDelete(c) ==
    /\ variant = "book_app"
    /\ process.listening
    /\ calls[c].pc = "sent" /\ calls[c].req.method = "DELETE"
    /\ LET out == BA_DeleteOut(calls[c].req.id)
       IN  /\ books' = out.books
           /\ deletedOk' = IF out.resp.status = 200 /\ FindBook(calls[c].req.id) # {}
                           THEN deletedOk \cup {CastObjectId(calls[c].req.id)} ELSE deletedOk
           /\ calls' = [calls EXCEPT ![c] = Answered(@, out.resp)]
    /\ UNCHANGED <<variant, process, users, now, nextId, issued, proc, signedUp, acks,
                   store, dom>>

\* loadAndRenderListings resumes
CL_Loaded(c) ==
    /\ variant = "book_app"
    /\ calls[c].pc = "answered" /\ calls[c].k = "load"
    /\ LET r == Loaded(store, dom, apiFetch(calls[c].resp))
       IN  store' = r.store /\ dom' = r.dom
    /\ calls' = [calls EXCEPT ![c] = NoCall]
    /\ UNCHANGED <<variant, process, users, books, now, nextId, issued, proc, signedUp,
                   deletedOk, acks>>

\* the first load resumes, then setView(store.currentView)
CL_Booted(c) ==
    /\ variant = "book_app"
    /\ calls[c].pc = "answered" /\ calls[c].k = "boot"
    /\ LET l == Loaded(store, dom, apiFetch(calls[c].resp))
           r == setView(l.store, l.dom, l.store.currentView)
       IN  /\ store' = r.store
           /\ dom' = r.dom
           /\ calls' = [calls EXCEPT ![c] = IF r.load THEN Sent(GetBooks, "load") ELSE NoCall]
    /\ UNCHANGED <<variant, process, users, books, now, nextId, issued, proc, signedUp,
                   deletedOk, acks>>

\* the submit handler resumes after its POST: on success it awaits
\* loadAndRenderListings
CL_Published(c) ==
    /\ variant = "book_app"
    /\ calls[c].pc = "answered" /\ calls[c].k = "publish"
    /\ calls' = [calls EXCEPT ![c] = IF apiFetch(calls[c].resp).ok
                                     THEN Sent(GetBooks, "publish_load") ELSE NoCall]
    /\ UNCHANGED <<variant, process, users, books, now, nextId, issued, proc, signedUp,
                   deletedOk, acks, store, dom>>

\* the submit handler resumes after that load, then setView('listings')
CL_PublishedLoaded(c) ==
    /\ variant = "book_app"
    /\ calls[c].pc = "answered" /\ calls[c].k = "publish_load"
    /\ LET l == Loaded(store, dom, apiFetch(calls[c].resp))
           r == setView(l.store, l.dom, "listings")
       IN  /\ store' = r.store
           /\ dom' = r.dom
           /\ calls' = [calls EXCEPT ![c] = Sent(GetBooks, "load")]
    /\ UNCHANGED <<variant, process, users, books, now, nextId, issued, proc, signedUp,
                   deletedOk, acks>>

\* deleteListing resumes
CL_Deleted(c) ==
    /\ variant = "book_app"
    /\ calls[c].pc = "answered" /\ calls[c].k = "delete"
    /\ IF apiFetch(calls[c].resp).ok
       THEN LET r == Deleted(store, dom, calls[c].req.id)
            IN  store' = r.store /\ dom' = r.dom
       ELSE UNCHANGED <<store, dom>>
    /\ calls' = [calls EXCEPT ![c] = NoCall]
    /\ UNCHANGED <<variant, process, users, books, now, nextId, issued, proc, signedUp,
                   deletedOk, acks>>

-----------------------------------------------------------------------------
(* The specifications.                                                     *)

\* the credential service, from the empty database
NextAuth ==
    \/ Tick
    \/ \E p \in Slots, b \in SignupBodies \cup NonStringSignupBodies : P0_Signup(p, b)
    \/ \E p \in Slots : P0_SignupSave(p)
    \/ \E b \in LoginBodies : P0_Login(b)
    \/ \E p \in Slots, b \in SignupBodies : P2_Signup(p, b)
    \/ \E p \in Slots : P2_SignupSave(p)
    \/ \E b \in LoginBodies : P2_Login(b)

SpecAuth == InitAuth /\ [][NextAuth]_vars

\* the browser client and the Book app server, which other browsers use too
InitClient ==
    /\ variant = "book_app"
    /\ process = Startup(variant, [MONGO_URI |-> UNDEF, MONGODB_URI |-> SetUri])
    /\ store = EmptyStore /\ dom = EmptyPage /\ calls = [c \in Calls |-> NoCall]
    /\ users = {}
    /\ books = {}
    /\ now = StartTime
    /\ nextId = 1
    /\ issued = {}
    /\ proc = [p \in Slots |-> Idle]
    /\ signedUp = {}
    /\ deletedOk = {}
    /\ acks = <<>>

NextClient ==
    \/ CL_DOMContentLoaded
    \/ \E viewName \in Views, c \in Calls : CL_NavClick(viewName, c)
    \/ \E data \in AuthForms, c \in Calls : CL_SignIn(data, c)
    \/ CL_SignOut
    \/ \E value \in TypeFilters : CL_FilterInput(value)
    \/ \E form \in ListingForms, c \in Calls : CL_Submit(form, c)
    \/ \E id \in IdsSent, c \in Calls : CL_DeleteClick(id, c)
    \/ \E c \in Calls : CL_ServeGet(c)
    \/ \E c \in Calls : CL_ServePost(c)
    \/ \E c \in Calls : CL_ServeDelete(c)
    \/ \E c \in Calls : CL_Loaded(c)
    \/ \E c \in Calls : CL_Booted(c)
    \/ \E c \in Calls : CL_Published(c)
    \/ \E c \in Calls : CL_PublishedLoaded(c)
    \/ \E c \in Calls : CL_Deleted(c)
    \/ BA_PostBooks(BA_FullBody)
    \/ \E id \in IdsSent : BA_Delete(id)

SpecClient == InitClient /\ [][NextClient]_vars

\* the requests of the model: a request that fails authentication is sent
\* with one body, one id and one text
Accepted(h) == "user" \in DOMAIN authenticateToken(h)

\* the bodies of POST /api/books: Bob's client uploads JPEG covers, every
\* other client the PNG cover of FullBody
Jpeg == Str(<<"data:image/jpeg;base64,", "/9j/4AAQSkZJRg==">>)
P0_BookBodiesOf(h) ==
    IF ~Accepted(h) THEN {FullBody}
    ELSE IF authenticateToken(h).user.email = Bob.email
         THEN {[b EXCEPT !.image = Jpeg] : b \in BookBodies}
         ELSE BookBodies

\* the listing service
Next ==
    \/ Tick
    \/ \E h \in AuthHeaders :
          \E b \in P0_BookBodiesOf(h) : P0_PostBooks(h, b)
    \/ P0_GetBooks
    \/ \E p \in Slots :
          /\ FreeSlot(p)
          /\ \E h \in AuthHeaders :
                \E id \in IF Accepted(h) THEN IdsSent ELSE {NoSuchId} :
                   P0_Delete(p, h, id)
    \/ \E p \in Slots : P0_DeleteOne(p)
    \/ \E p \in Slots :
          /\ FreeSlot(p)
          /\ \E h \in AuthHeaders :
                \E id \in IF Accepted(h) THEN IdsSent ELSE {NoSuchId} :
                   \E b \in IF Accepted(h) THEN P0_MessageBodies ELSE {P0_NoMessageBody} :
                      P0_Message(p, h, id, b)
    \/ \E p \in Slots : P0_MessageSave(p)
    \/ \E b \in P2_BookBodies : P2_PostBooks(b)
    \/ P2_GetBooks
    \/ \E id \in IdsSent : P2_Delete(id)
    \/ \E p \in Slots, id \in IdsSent, b \in MessageBodies : P2_Message(p, id, b)
    \/ \E p \in Slots : P2_MessageSave(p)
    \/ \E req \in Requests : P0_Unmatched(req)
    \/ \E req \in Requests : P2_Unmatched(req)
    \/ \E b \in P1_LoginBodies : P1_Login(b)
    \/ \E b \in P1_BookBodies : P1_PostBooks(b)
    \/ P1_GetBooks
    \/ \E id \in IdsSent : P1_Delete(id)
    \/ \E id \in IdsSent, b \in MessageBodies : P1_Message(id, b)
    \/ \E b \in P3_BookBodies : P3_PostBooks(b)
    \/ P3_GetBooks
    \/ \E id \in IdsSent : P3_Delete(id)
    \/ \E id \in IdsSent, b \in MessageBodies : P3_Message(id, b)
    \/ \E b \in BA_BookBodies : BA_PostBooks(b)
    \/ BA_GetBooks
    \/ \E id \in IdsSent : BA_Delete(id)
    \/ \E b \in BA_BookBodies : P4_PostBooks(b)
    \/ P4_GetBooks
    \/ \E id \in IdsSent : P4_Delete(id)

Spec == Init /\ [][Next]_vars

-----------------------------------------------------------------------------
(* Properties.                                                             *)

\* the request carries a token that the server signed and that has not expired
HeldValid(h) ==
    \E tok \in issued : h = Bearer(tok) /\ (now \div 1000) < tok[1].jwt.payload.exp
\* the claims of the token of such a request
Claims(h) == h.v[3].jwt.payload
\* the identity of a stored user, as a listing's owner carries it
AsOwner(u) == [userId |-> u._id, name |-> u.name, email |-> u.email]

IsPrefix(s, t) == Len(s) <= Len(t) /\ SubSeq(t, 1, Len(s)) = s

\* C1: in part_000 every POST /api/books answered 201 was made with a valid
\* token, stores exactly one new listing, and that listing's owner is the
\* userId, name and email of the token's claims, whatever owner and contact
\* the body carries; so every stored listing is owned by a stored user.
C1_OwnerIsTokenIdentity ==
    variant = "part_000" =>
        /\ \A h \in AuthHeaders, b \in BookBodies :
              LET out == P0_PostBooksOut(h, b)
              IN  out.resp.status = 201 =>
                     /\ HeldValid(h)
                     /\ out.books \ books = {out.resp.body.data}
                     /\ \A d \in out.books \ books :
                           /\ toString(d.owner.userId) = Claims(h).userId
                           /\ d.owner.name = Claims(h).name
                           /\ d.owner.email = Claims(h).email
        /\ \A d \in books : \E u \in users : d.owner = AsOwner(u)

\* Ann has published the body that names Mallory as owner and contact
C1_Witness ==
    /\ variant = "part_000"
    /\ \E d \in books : d.image = FullBody.image /\ d.owner = AsOwner(Ann)
    /\ FullBody.owner.name = <<"Mallory">>

\* C2 (state part): in part_000 a DELETE with a valid token of a user who is
\* not the listing's owner is answered 403 at once; with the owner's token it
\* goes on to Book.deleteOne, is answered 200 and the listing is gone; only an
\* owner's request gets that far; no GET returns a listing whose DELETE was
\* answered 200.
C2_State ==
    variant = "part_000" =>
        /\ \A h \in AuthHeaders, x \in books :
              HeldValid(h) =>
                 LET out == P0_DeleteOut(h, toString(x._id))
                 IN  IF Claims(h).userId # toString(x.owner.userId)
                     THEN "resp" \in DOMAIN out /\ out.resp.status = 403
                     ELSE "await" \in DOMAIN out
        /\ \A p \in Slots :
              proc[p].pc = "delete_deleteOne" =>
                 /\ P0_DeleteOneOut(proc[p]).resp.status = 200
                 /\ \A x \in P0_DeleteOneOut(proc[p]).books : toString(x._id) # proc[p].id
                 /\ \A x \in books :
                       toString(x._id) = proc[p].id => toString(x.owner.userId) = proc[p].user.userId
        /\ \A r \in P0_GetBooksOut : \A i \in 1..Len(r.body) : r.body[i]._id \notin deletedOk

\* C2 (step part): a stored listing leaves the collection only in the step of
\* a DELETE of its owner
C2_Step ==
    variant = "part_000" =>
        \A x \in books :
           (\A y \in books' : y._id # x._id) =>
              \E p \in Slots :
                 /\ proc[p].pc = "delete_deleteOne" /\ proc'[p] = Idle
                 /\ proc[p].id = toString(x._id)
                 /\ proc[p].user.userId = toString(x.owner.userId)

\* C2: DELETE by a non-owner is answered 403 and leaves the listing stored;
\* DELETE by the owner is answered 200 and no later GET contains the listing.
C2_DeleteOnlyByOwner == []C2_State /\ [][C2_Step]_vars

\* a listing has been deleted by its owner while another one, which a user
\* with a valid token does not own, is still stored
C2_Witness ==
    /\ variant = "part_000"
    /\ deletedOk # {}
    /\ \E x \in books, h \in AuthHeaders :
          HeldValid(h) /\ Claims(h).userId # toString(x.owner.userId)

\* C4: in part_000 every request to a protected route without a valid token
\* (no header, no token in the header, a malformed token, a token with a bad
\* signature, an expired token) is answered 401.
C4_NoValidTokenIs401 ==
    variant = "part_000" =>
        \A h \in AuthHeaders :
           ~HeldValid(h) =>
              /\ P0_PostBooksOut(h, FullBody).resp.status = 401
              /\ P0_DeleteOut(h, NoSuchId).resp.status = 401
              /\ P0_MessageOut(h, NoSuchId, P0_NoMessageBody).resp.status = 401

\* the answered appends of a listing
AcksOf(oid) == {i \in DOMAIN acks : acks[i].id = oid}

\* C3: in part_000 and part_002 (findById, push, save) every append answered
\* 201 is stored, whatever the interleaving of the reads and the saves: a
\* listing holds as many messages as appends to it were answered 201, each
\* answered message is in its msgs, and the save of a suspended request adds
\* exactly its message to what is stored then; so two concurrent appends
\* leave both messages and a length grown by 2.
C3_ConcurrentAppendsKept ==
    variant \in {"part_000", "part_002"} =>
        /\ \A x \in books :
              /\ Len(x.msgs) = Cardinality(AcksOf(x._id))
              /\ \A i \in AcksOf(x._id) : \E k \in 1..Len(x.msgs) : x.msgs[k] = acks[i].msg
        /\ \A p \in Slots, x \in books :
              proc[p].pc = "msg_save" /\ proc[p].book._id = x._id =>
                 LET out == IF variant = "part_000" THEN P0_MessageSaveOut(proc[p])
                                                    ELSE P2_MessageSaveOut(proc[p])
                 IN  /\ out.resp.status = 201
                     /\ \E y \in out.books :
                           /\ y._id = x._id
                           /\ y.msgs = Append(x.msgs, out.resp.body)

\* two appends to one listing that had both read it empty have been answered
\* 201, and the listing holds two messages
C3_Witness ==
    /\ variant \in {"part_000", "part_002"}
    /\ \E x \in books :
          /\ Len(x.msgs) = 2
          /\ \E i, j \in AcksOf(x._id) : i # j /\ acks[i].read = 0 /\ acks[j].read = 0

\* C5: once a signup with an email has been answered 201, every signup with
\* that email, with any non-empty password and name, is answered 409 at once
\* and creates no user.
C5_SecondSignupIs409 ==
    \A b \in SignupBodies :
       Truthy(b.email) /\ Truthy(b.password) /\ Truthy(b.name) /\ b.email.v \in signedUp =>
          LET out == IF variant = "part_000" THEN P0_SignupOut(b) ELSE P2_SignupOut(b)
          IN  /\ "resp" \in DOMAIN out
              /\ out.resp.status = 409
              /\ "await" \notin DOMAIN out

\* Ann has signed up with E1, and the bodies hold a signup with E1 under
\* another password and name
C5_Witness ==
    /\ E1 \in signedUp
    /\ \E u \in users : u.email = E1 /\ u.name = <<"Ann">>
    /\ \E b \in SignupBodies : b.email = Str(E1) /\ b.password = Str(<<"pw2">>)

\* C6: no two stored users have the same email, also when two signups with
\* one email have both passed the lookup before either saves.
C6_EmailUnique ==
    \A u1, u2 \in users : u1.email = u2.email => u1 = u2

\* a signup that passed the lookup is suspended before its save while the
\* other signup with the same email has stored its user
C6_Witness ==
    \E p \in Slots :
       /\ proc[p].pc = "signup_save"
       /\ \E u \in users : u.email = proc[p].req.email.v

\* C7: every signup that fails because its email has an account is answered
\* 409, also the one that loses the race of two concurrent signups.
C7_DuplicateSignupIs409 ==
    /\ \A b \in SignupBodies :
          Truthy(b.email) /\ Truthy(b.password) /\ Truthy(b.name) /\ FindUser(b.email.v) # {} =>
             (IF variant = "part_000" THEN P0_SignupOut(b) ELSE P2_SignupOut(b)).resp.status = 409
    /\ \A p \in Slots, salt \in Salts :
          proc[p].pc = "signup_save" /\ FindUser(proc[p].req.email.v) # {} =>
             (IF variant = "part_000" THEN P0_SignupSaveOut(proc[p].req, salt)
                                      ELSE P2_SignupSaveOut(proc[p].req, salt)).resp.status = 409

GetBooksOut ==
    IF variant = "part_000" THEN P0_GetBooksOut
    ELSE IF variant = "part_002" THEN P2_GetBooksOut
    ELSE IF variant = "part_001" THEN P1_GetBooksOut
    ELSE IF variant = "part_003" THEN P3_GetBooksOut
    ELSE IF variant = "part_004" THEN P4_GetBooksOut
    ELSE BA_GetBooksOut

\* C9: while no listing has been deleted, every answer of GET /api/books
\* holds exactly the listings created, the later created before the earlier
\* created.
C9_NewestFirst ==
    deletedOk = {} =>
       \A r \in GetBooksOut :
          /\ Len(r.body) = Created
          /\ \A i, j \in 1..Len(r.body) : i < j => r.body[i]._id.oid > r.body[j]._id.oid

\* C10: a listing that is stored before and after a step has its earlier msgs
\* as a prefix of its later msgs.
C10_MsgsOnlyGrow ==
    [][\A x \in books : \A y \in books' : x._id = y._id => IsPrefix(Msgs(x), Msgs(y))]_vars

\* a listing holds two messages
C10_Witness == \E x \in books : Len(Msgs(x)) = 2

\* what the atomic append of part_001 and part_003 answers
UpdateMessageOut(id, b) ==
    IF variant = "part_001" THEN P1_MessageOut(id, b) ELSE P3_MessageOut(id, b)

\* C11: a successful POST /api/books/:id/message answers with the message of
\* this request: in part_001 and part_003 the response is the message with
\* the request's by and text, which the step puts last in the stored msgs; in
\* part_000 the message a request pushes has the token's name and the
\* request's text, and the response after the save is that pushed message,
\* also when the stored msgs already hold a message that another request
\* appended in between.
C11_ResponseIsOwnMessage ==
    /\ variant \in {"part_001", "part_003"} =>
          \A id \in IdsSent, b \in MessageBodies :
             LET out == UpdateMessageOut(id, b)
             IN  out.resp.status = 200 =>
                    /\ DOMAIN out.resp.body = {"by", "text", "ts"}
                    /\ out.resp.body.by = b.by /\ out.resp.body.text = b.text
                    /\ \E x \in books, y \in out.books :
                          /\ x._id = y._id /\ toString(x._id) = id
                          /\ y.msgs = Append(x.msgs, out.resp.body)
    /\ variant = "part_000" =>
          /\ \A h \in AuthHeaders, id \in IdsSent, b \in P0_MessageBodies :
                LET out == P0_MessageOut(h, id, b)
                IN  "await" \in DOMAIN out =>
                       /\ HeldValid(h)
                       /\ out.await.pushed =
                             <<[by |-> Str(Claims(h).name), text |-> b.text, timestamp |-> now]>>
          /\ \A p \in Slots :
                proc[p].pc = "msg_save" =>
                   LET out == P0_MessageSaveOut(proc[p])
                   IN  out.resp.status = 201 =>
                          /\ out.resp.body = proc[p].pushed[1]
                          /\ DOMAIN out.resp.body = {"by", "text", "timestamp"}

\* in part_000 a request that read the listing empty is suspended before its
\* save while the stored listing holds the message of another sender
C11_Witness ==
    /\ variant = "part_000"
    /\ \E p \in Slots, x \in books :
          /\ proc[p].pc = "msg_save" /\ proc[p].book._id = x._id
          /\ Len(proc[p].book.msgs) = 1 /\ Len(x.msgs) = 1
          /\ x.msgs[1].by # proc[p].pushed[1].by

\* what the save of a suspended append does in the running server
MessageSaveOut(req) ==
    IF variant = "part_000" THEN P0_MessageSaveOut(req) ELSE P2_MessageSaveOut(req)

\* C12: a listing whose DELETE was answered with success is not stored and is
\* in no answer of GET /api/books from then on; the save of an append that
\* had read the listing before the delete fails (500) and stores nothing.
C12_DeletedStaysDeleted ==
    /\ \A x \in books : x._id \notin deletedOk
    /\ \A r \in GetBooksOut : \A i \in 1..Len(r.body) : r.body[i]._id \notin deletedOk
    /\ \A p \in Slots :
          proc[p].pc = "msg_save" /\ proc[p].book._id \in deletedOk =>
             LET out == MessageSaveOut(proc[p])
             IN  out.resp.status = 500 /\ out.books = books

\* in part_000 an append that read the listing is suspended before its save,
\* and the listing's DELETE has been answered 200 meanwhile
C12_Witness ==
    /\ variant = "part_000"
    /\ \E p \in Slots : proc[p].pc = "msg_save" /\ proc[p].book._id \in deletedOk

\* what DELETE /api/books/:id answers and stores in the running server, for
\* a request that passes the authentication where there is one
DeleteOut(h, id) ==
    IF variant = "part_000"
    THEN LET out == P0_DeleteOut(h, id)
         IN  IF "resp" \in DOMAIN out THEN [resp |-> out.resp, books |-> books]
             ELSE P0_DeleteOneOut(out.await)
    ELSE IF variant = "part_002" THEN P2_DeleteOut(id)
    ELSE IF variant = "part_001" THEN P1_DeleteOut(id)
    ELSE IF variant = "part_003" THEN P3_DeleteOut(id)
    ELSE IF variant = "part_004" THEN P4_DeleteOut(id)
    ELSE BA_DeleteOut(id)

\* C13: in each server a DELETE /api/books/:id whose id is the id of no
\* stored listing is answered 404 and leaves the stored listings as they are.
C13_DeleteUnknownIs404 ==
    \A id \in IdsSent, h \in AuthHeaders :
       /\ IsObjectId(id) /\ FindBook(id) = {}
       /\ variant = "part_000" => HeldValid(h)
       => LET out == DeleteOut(h, id)
          IN  out.resp.status = 404 /\ out.books = books

\* a listing body without one of the fields that the schema requires
LacksRequired(b) ==
    \E f \in {"title", "author", "description", "type", "price"} \cap DOMAIN b : b[f] = UNDEF

\* C14: in part_000 and part_002 a POST /api/books whose body lacks a
\* required field (title, author, description, type or price) is answered 400
\* and stores no listing.
C14_MissingFieldIs400 ==
    /\ variant = "part_000" =>
          \A h \in AuthHeaders, b \in BookBodies :
             HeldValid(h) /\ LacksRequired(b) =>
                LET out == P0_PostBooksOut(h, b)
                IN  out.resp.status = 400 /\ out.books = books
    /\ variant = "part_002" =>
          \A b \in P2_BookBodies :
             LacksRequired(b) =>
                LET out == P2_PostBooksOut(b)
                IN  out.resp.status = 400 /\ out.books = books

\* C15: every request gets a JSON response from its route: the signup of
\* part_000 and the login of part_001 answer every body, also one without an
\* email and one whose email is no string.
C15_EveryRequestAnswered ==
    /\ variant = "part_000" =>
          \A b \in SignupBodies \cup NonStringSignupBodies :
             "throws" \notin DOMAIN P0_SignupOut(b)
    /\ variant = "part_001" =>
          \A b \in P1_LoginBodies : "resp" \in DOMAIN P1_LoginOut(b)

\* a signup body without email, password or name
LacksSignupField(b) == ~Truthy(b.email) \/ ~Truthy(b.password) \/ ~Truthy(b.name)

\* C16: in part_000 a signup without email, password or name is answered 400
\* for the missing field, also when its email has another domain; a complete
\* signup whose email does not end with @gmail.com is answered 400 for the
\* domain; neither goes on to the save, so only complete signups with a
\* @gmail.com email are suspended before user.save() or stored.
C16_SignupValidation ==
    variant = "part_000" =>
        /\ \A b \in SignupBodies :
              LET out == P0_SignupOut(b)
              IN  /\ LacksSignupField(b) =>
                        /\ DOMAIN out = {"resp"}
                        /\ out.resp = sendResponse(UNDEF, "Please provide name, email, and password.",
                                                   FALSE, 400)
                  /\ ~LacksSignupField(b) /\ ~EndsWith(b.email.v, ALLOWED_DOMAIN) =>
                        /\ DOMAIN out = {"resp"}
                        /\ out.resp = sendResponse(UNDEF, "Only emails ending with @gmail.com are allowed.",
                                                   FALSE, 400)
        /\ \A p \in Slots :
              proc[p].pc = "signup_save" =>
                 ~LacksSignupField(proc[p].req) /\ EndsWith(proc[p].req.email.v, ALLOWED_DOMAIN)
        /\ \A u \in users : EndsWith(u.email, ALLOWED_DOMAIN) /\ u.name # <<>>

\* a user is stored, and the bodies hold a signup without password whose
\* email ends with @yahoo.com
C16_Witness ==
    /\ variant = "part_000"
    /\ users # {}
    /\ \E b \in SignupBodies :
          /\ ~Truthy(b.password) /\ Truthy(b.email) /\ ~EndsWith(b.email.v, ALLOWED_DOMAIN)
          /\ P0_SignupOut(b).resp.status = 400

\* what the save of a suspended signup does in the running server
SignupSaveOut(b, salt) ==
    IF variant = "part_000" THEN P0_SignupSaveOut(b, salt) ELSE P2_SignupSaveOut(b, salt)

\* C17: a signup answered 201 stores one new user; the token of the response
\* verifies, and its claims are the email and the name of the request and the
\* id of that user; the stored password is the bcrypt hash of the request's
\* password, which bcrypt.compare accepts, and is not the password itself.
C17_TokenAndHash ==
    /\ \A p \in Slots, salt \in Salts :
          proc[p].pc = "signup_save" =>
             LET b == proc[p].req
                 out == SignupSaveOut(b, salt)
                 v == jwtVerify(out.resp.body.data.token, JWT_SECRET, now)
             IN  out.resp.status = 201 =>
                    /\ "user" \in DOMAIN v
                    /\ v.user.email = b.email.v /\ v.user.name = b.name.v
                    /\ \E u \in out.users :
                          /\ out.users \ users = {u}
                          /\ v.user.userId = toString(u._id)
                          /\ u.email = b.email.v /\ u.name = b.name.v
                          /\ u.password = bcryptHash(b.password.v, salt)
                          /\ u.password # b.password
                          /\ bcryptCompare(b.password.v, u.password)
    /\ \A u \in users :
          /\ u.password.alg = "bcrypt"
          /\ \A b \in SignupBodies : u.password # b.password

\* a signup is suspended before its save, which will be answered 201, while
\* another user is stored
C17_Witness ==
    /\ users # {}
    /\ \E p \in Slots, salt \in Salts :
          /\ proc[p].pc = "signup_save"
          /\ SignupSaveOut(proc[p].req, salt).resp.status = 201

\* C18: in part_000 the sender of every message that a request pushes, that a
\* suspended request is about to save, and that a listing stores is the name
\* of a stored user, the one of the request's verified token; it is never the
\* by of the request body.
C18_SenderIsTokenName ==
    variant = "part_000" =>
        /\ \A h \in AuthHeaders, id \in IdsSent, b \in P0_MessageBodies :
              LET out == P0_MessageOut(h, id, b)
              IN  "await" \in DOMAIN out =>
                     /\ HeldValid(h)
                     /\ out.await.pushed[1].by = Str(Claims(h).name)
                     /\ out.await.pushed[1].by # b.by
        /\ \A p \in Slots :
              proc[p].pc = "msg_save" => proc[p].pushed[1].by = Str(proc[p].user.name)
        /\ \A x \in books : \A i \in 1..Len(x.msgs) :
              /\ \E u \in users : x.msgs[i].by = Str(u.name)
              /\ \A b \in P0_MessageBodies : x.msgs[i].by # b.by

\* in part_000 a listing stores a message, and the bodies of the append
\* requests name Mallory as sender
C18_Witness ==
    /\ variant = "part_000"
    /\ \E x \in books : Len(x.msgs) > 0
    /\ \E b \in P0_MessageBodies : b.by = Str(<<"Mallory">>) /\ Truthy(b.text)

\* what POST /api/auth/login answers in the running server
LoginOut(b) == IF variant = "part_000" THEN P0_LoginOut(b) ELSE P2_LoginOut(b)

\* C19 (state part): a login gives a response, and a token when it succeeds,
\* and nothing to store; authenticateToken gives a response or the identity
\* of the request, and nothing to store
C19_State ==
    /\ \A b \in LoginBodies : DOMAIN LoginOut(b) \in {{"resp"}, {"resp", "token"}}
    /\ \A h \in AuthHeaders : DOMAIN authenticateToken(h) \in {{"resp"}, {"user"}}

\* C19 (step part): no step of the credential service changes the listings
\* or removes a user; a step that changes the users is the save of a
\* suspended signup that is answered 201, and it adds one user
C19_Step ==
    /\ books' = books
    /\ users \subseteq users'
    /\ users' # users =>
          \E p \in Slots, salt \in Salts :
             /\ proc[p].pc = "signup_save" /\ proc'[p] = Idle
             /\ SignupSaveOut(proc[p].req, salt).resp.status = 201
             /\ users' = SignupSaveOut(proc[p].req, salt).users
             /\ Cardinality(users') = Cardinality(users) + 1

\* C19: login, successful or not, and token verification leave the stored
\* users and listings unchanged; only a successful signup adds a user.
C19_OnlySignupAddsUser == []C19_State /\ [][C19_Step]_vars

\* a user is stored; one login of the bodies succeeds and another is refused
C19_Witness ==
    /\ users # {}
    /\ \E b1, b2 \in LoginBodies :
          LoginOut(b1).resp.status = 200 /\ LoginOut(b2).resp.status = 401

\* the fields of the data of a successful signup or login response
IdentityFields ==
    IF variant = "part_000" THEN {"userId", "name", "email", "token"}
                            ELSE {"id", "name", "email", "token"}

\* a response of the credential service carries no password: its data is
\* absent, or it has the identity fields only and a token whose payload has
\* the claims, iat and exp only
NoPasswordIn(resp) ==
    \/ resp.body.data = UNDEF
    \/ /\ DOMAIN resp.body.data = IdentityFields
       /\ DOMAIN resp.body.data.token[1].jwt.payload = {"userId", "name", "email", "iat", "exp"}

\* C20: no response of signup or login carries the stored password hash: the
\* error responses carry no data, the 201 and 200 responses carry the user's
\* id, name, email and token only; the listing that POST /api/books of
\* part_000 answers with names its owner by userId, name and email only.
C20_NoHashInResponses ==
    /\ \A b \in SignupBodies :
          LET out == IF variant = "part_000" THEN P0_SignupOut(b) ELSE P2_SignupOut(b)
          IN  "resp" \in DOMAIN out => NoPasswordIn(out.resp)
    /\ \A p \in Slots, salt \in Salts :
          proc[p].pc = "signup_save" => NoPasswordIn(SignupSaveOut(proc[p].req, salt).resp)
    /\ \A b \in LoginBodies : NoPasswordIn(LoginOut(b).resp)
    /\ variant = "part_000" =>
          \A h \in AuthHeaders :
             LET out == P0_PostBooksOut(h, FullBody)
             IN  out.resp.status = 201 =>
                    DOMAIN out.resp.body.data.owner = {"userId", "name", "email"}

\* a user with a stored hash logs in successfully
C20_Witness ==
    \E b \in LoginBodies, u \in users :
       /\ u.password.alg = "bcrypt"
       /\ LoginOut(b).resp.status = 200
       /\ LoginOut(b).resp.body.data.email = u.email

\* C21: in part_000 no listing of an answer of GET /api/books has a msgs
\* field, whatever messages the stored listing holds; it is the stored
\* listing in every other field.
C21_ListHasNoMsgs ==
    variant = "part_000" =>
        \A r \in P0_GetBooksOut :
           /\ Len(r.body) = Cardinality(books)
           /\ \A i \in 1..Len(r.body) :
                 /\ "msgs" \notin DOMAIN r.body[i]
                 /\ \E x \in books :
                       /\ DOMAIN r.body[i] = DOMAIN x \ {"msgs"}
                       /\ \A f \in DOMAIN r.body[i] : r.body[i][f] = x[f]

\* in part_000 a stored listing holds a message
C21_Witness ==
    /\ variant = "part_000"
    /\ \E x \in books : Len(x.msgs) > 0
    /\ P0_GetBooksOut # {}

\* C23: a server started without the connection string of its database in
\* the environment has exited with a failure code and is not listening, so
\* that it answers no request.
C23_NoUriNoServer ==
    (~Truthy(process.env.MONGO_URI) /\ ~Truthy(process.env.MONGODB_URI)) =>
        /\ ~process.listening
        /\ process.exitCode = Num(1)

\* C24: in part_000 and part_002 every request that no route takes is
\* answered, whatever its method, with status 404 and the JSON envelope
\* {success: false, message, data: null} when its path is under /api/, and
\* with the entry document index.html and status 200 when it is not.
C24_UnmatchedAnswer ==
    (variant \in AuthVariants /\ process.listening) =>
        \A req \in Requests :
           ~Matched(req) =>
              LET r == IF variant = "part_000" THEN P0_UnmatchedOut(req)
                                               ELSE P2_UnmatchedOut(req)
              IN  IF UnderApi(req)
                  THEN /\ r.status = 404
                       /\ "body" \in DOMAIN r
                       /\ DOMAIN r.body = {"success", "message", "data"}
                       /\ r.body.success = FALSE
                       /\ r.body.data = UNDEF
                  ELSE r = sendFile(<<"index.html">>)

\* C25: in part_000, when POST /api/books creates a listing from a body
\* whose image is X, every answer of GET /api/books given afterwards lists
\* that listing with image equal to X: right after the creation, and, since
\* no request changes the image of a stored listing, for as long as the
\* listing is stored.
C25_State ==
    \A x \in books : \A r \in P0_GetBooksOut :
       \E i \in 1..Len(r.body) : r.body[i]._id = x._id /\ r.body[i].image = x.image

C25_Step ==
    /\ (\E y \in books' : \A x \in books : x._id # y._id) =>
          \A h \in AuthHeaders : \A b \in P0_BookBodiesOf(h) :
             LET out == P0_PostBooksOut(h, b)
             IN  (out.resp.status = 201 /\ books' = out.books) =>
                    \E y \in books' : y._id = ObjectId(nextId) /\ y.image = b.image
    /\ \A x \in books, y \in books' : x._id = y._id => y.image = x.image

C25_ImageRoundTrip ==
    /\ [](variant = "part_000" => C25_State)
    /\ [][variant = "part_000" => C25_Step]_vars

\* two listings created with different images are stored in part_000
C25_Witness ==
    /\ variant = "part_000"
    /\ \E x, y \in books :
          /\ x.image # y.image
          /\ x.image = FullBody.image
          /\ y.image = Jpeg
    /\ P0_GetBooksOut # {}

\* the suspended request was let in by a token the server signed
ByIssuedToken(req) == \E tok \in issued : tok[1].jwt.payload = req.user

\* C26: in part_000 the requests to the listing routes that are answered
\* with an error status (401 and 403 of the token gate, 400, 403 of a
\* non-owner, 404, and 500) leave the users and the listings as they were:
\* no step changes the users, and a step that changes the listings or their
\* messages is the step of a request that carried a valid token and is
\* answered in that step with a success status (201 of POST /api/books, 200
\* of DELETE, 201 of the append).
C26_Step ==
    variant = "part_000" =>
        /\ users' = users
        /\ books' # books =>
              \/ \E h \in AuthHeaders : \E b \in P0_BookBodiesOf(h) :
                    LET out == P0_PostBooksOut(h, b)
                    IN  HeldValid(h) /\ out.resp.status = 201 /\ books' = out.books
              \/ \E p \in Slots :
                    /\ proc[p].pc = "delete_deleteOne" /\ proc'[p] = Idle
                    /\ ByIssuedToken(proc[p])
                    /\ P0_DeleteOneOut(proc[p]).resp.status = 200
                    /\ books' = P0_DeleteOneOut(proc[p]).books
              \/ \E p \in Slots :
                    /\ proc[p].pc = "msg_save" /\ proc'[p] = Idle
                    /\ ByIssuedToken(proc[p])
                    /\ P0_MessageSaveOut(proc[p]).resp.status = 201
                    /\ books' = P0_MessageSaveOut(proc[p]).books

C26_ErrorsChangeNothing == [][C26_Step]_vars

\* a listing is stored, and requests that will be refused can be made: one
\* without a valid token, a DELETE by a user who does not own the listing,
\* an append to an unknown listing, an append with an empty text
C26_Witness ==
    /\ variant = "part_000"
    /\ \E x \in books, h \in AuthHeaders :
          /\ HeldValid(h)
          /\ "resp" \in DOMAIN P0_DeleteOut(h, toString(x._id))
          /\ P0_DeleteOut(h, toString(x._id)).resp.status = 403
          /\ P0_MessageOut(h, toString(ObjectId(0)), [by |-> UNDEF, text |-> Str(<<"hi">>)]).resp.status = 404
          /\ P0_MessageOut(h, toString(x._id), [by |-> UNDEF, text |-> Str(<<>>)]).resp.status = 400
          /\ P0_PostBooksOut(h, [FullBody EXCEPT !.title = UNDEF]).resp.status = 400
    /\ \E h \in AuthHeaders : P0_PostBooksOut(h, FullBody).resp.status = 401

\* C27: at most one DELETE of a listing is answered 200.  In part_000 a
\* DELETE that has read the listing and is about to delete it, when another
\* DELETE of the same listing has been answered 200 in between, is answered
\* 404; in part_001 (findByIdAndDelete) a DELETE of a listing whose deletion
\* has been answered 200 is answered 404.
C27_OneDeleteSucceeds ==
    /\ variant = "part_000" =>
          \A p \in Slots :
             (proc[p].pc = "delete_deleteOne" /\ CastObjectId(proc[p].id) \in deletedOk) =>
                P0_DeleteOneOut(proc[p]).resp.status = 404
    /\ variant = "part_001" =>
          \A id \in IdsSent :
             (IsObjectId(id) /\ CastObjectId(id) \in deletedOk) =>
                P1_DeleteOut(id).resp.status = 404

\* C28: in part_000 and part_002 an append is answered 201 only when its
\* message is stored: after the save of a suspended append that answers 201
\* a listing with the request's _id is stored and holds the answered message;
\* when the listing was deleted between the findById and the save, the save
\* answers 500 and not 201.  Every append answered 201 so far is a message of
\* a stored listing, unless the listing has been deleted since.
C28_AckedIsStored ==
    variant \in AuthVariants =>
        /\ \A p \in Slots :
              proc[p].pc = "msg_save" =>
                 LET out == MessageSaveOut(proc[p])
                     stored == {x \in out.books : x._id = proc[p].book._id}
                 IN  /\ out.resp.status = 201 =>
                           /\ stored # {}
                           /\ \A x \in stored :
                                 \E i \in 1..Len(x.msgs) : x.msgs[i] = out.resp.body
                     /\ (\A x \in books : x._id # proc[p].book._id) =>
                           out.resp.status # 201
        /\ \A k \in DOMAIN acks :
              \E x \in books :
                 /\ x._id = acks[k].id
                 /\ \E i \in 1..Len(x.msgs) : x.msgs[i] = acks[k].msg

\* in part_002 an append that has read the listing is suspended before its
\* save and the listing has been deleted meanwhile, while an append to
\* another listing has been answered 201
C28_Witness ==
    /\ variant = "part_002"
    /\ \E p \in Slots :
          /\ proc[p].pc = "msg_save"
          /\ proc[p].book._id \in deletedOk
          /\ MessageSaveOut(proc[p]).resp.status = 500
    /\ Len(acks) > 0

\* C29: the simulated login of part_001 maps the accepted emails to userIds
\* one to one: two logins are answered with the same userId exactly when
\* they were made with the same email.
C29_UserIdPerEmail ==
    variant = "part_001" =>
        \A b1, b2 \in P1_LoginBodies :
           LET o1 == P1_LoginOut(b1)
               o2 == P1_LoginOut(b2)
           IN  ("resp" \in DOMAIN o1 /\ "resp" \in DOMAIN o2
                  /\ o1.resp.status = 200 /\ o2.resp.status = 200) =>
                  (o1.resp.body.user.userId = o2.resp.body.user.userId
                      <=> b1.email = b2.email)

\* C22: in the browser client the listing cache (store.listings) changes
\* only by being replaced with the body of an answered GET /books: also the
\* continuation of a successful publishing or deleting call leaves the cache
\* as it is or sets it to such a body, and never edits it in place.
C22_CacheOnlyFromGet ==
    [][(variant = "book_app" /\ store'.listings # store.listings) =>
          \E c \in Calls :
             /\ calls[c].pc = "answered"
             /\ calls[c].req.method = "GET"
             /\ apiFetch(calls[c].resp).ok
             /\ store'.listings = calls[c].resp.body]_vars

\* C30: in the browser client, once the page is loaded, the counter
\* statMyListings shows the number of cached listings whose contact is the
\* email of the signed-in user, and 0 when no user is signed in.
C30_MyListingsCount ==
    (variant = "book_app" /\ dom.loaded) =>
        dom.statMyListings =
            IF store.user = UNDEF THEN 0
            ELSE Cardinality({i \in 1..Len(store.listings) :
                                 store.listings[i].contact = store.user.email})

====
